---- MODULE Spec2Model ----
(***************************************************************************)
(* Model of the robo_eye servo rig.                                        *)
(*                                                                         *)
(* Embedded controller: src/micropython_controller/code.py                 *)
(*                                                                         *)
(* Units.  Angles are held in tenths of a degree and pulse widths in       *)
(* tenths of a microsecond, so that the one-decimal floats the protocol    *)
(* carries ("-2.5", "CMD OK SAC 10.0 ...") are exact integers here.        *)
(* Deg(45) is 45 degrees, Us(1490) is 1490 microseconds.                   *)
(*                                                                         *)
(* Text is a sequence of one-character strings, so that strip, split,      *)
(* upper and float are computed character by character as the code does.   *)
(***************************************************************************)
EXTENDS Integers, Sequences, FiniteSets, TLC

VARIABLES
    servo_controller,       \* "None" or "PCA9685" (code.py:14)
    servo_status,           \* cached status text (code.py:13)
    eye_angles,             \* [eye -> [axis -> tenths of a degree]] (code.py:57)
    eye_selection_index,    \* index into EYE_OPTIONS, 0-based (code.py:58)
    point_distance_index,   \* index into POINT_DISTANCE_OPTIONS, 0-based (code.py:76)
    serial_command_buffer,  \* characters accumulated by poll_serial_commands (code.py:332)
    serial_connected,       \* supervisor.runtime.serial_connected
    crashed,                \* an exception left the main loop: the program has stopped
    attempts,               \* history: axis commands attempted by the last step
    out,                    \* history: lines printed by the last step
    dispatched,             \* history: commands the last step passed to handle_serial_command
    last_call,              \* history: the operation the last step ran, with its arguments
    cur_line,               \* history: characters received since the last line terminator
    overflowed,             \* history: a line-too-long reset has happened
    stale_chars,            \* history: how many leading characters of the buffer
                            \* arrived before the last loss of the serial link
    current_menu_index,     \* active menu section, 0-based (code.py:124)
    current_option_indices, \* per section: the option cursor or NoIndex (code.py:139)
    selected_option_indices,\* per section: the selected option or NoIndex (code.py:142)
    d2_press_time,          \* time of the recorded D2 press or NoTime (code.py:99)
    events,                 \* history: key events handled so far
    connected,              \* SaccadeController.connected (saccade.py:52)
    profiling,              \* SaccadeController.profiling (saccade.py:53)
    profile_data,           \* SaccadeController.profile_data (saccade.py:54)
    phidget,                \* the Phidget device behind SaccadeController.servo
    host_pc,                \* where the commanding thread of the host tool is
    threads,                \* per profiled run: its _profile_thread
    host_call               \* history: the host command being run or last run

servoVars == <<servo_controller, servo_status, eye_angles>>
settingVars == <<eye_selection_index, point_distance_index>>
serialVars == <<serial_command_buffer, serial_connected, cur_line, overflowed,
                stale_chars>>
menuVars == <<current_menu_index, current_option_indices,
              selected_option_indices, d2_press_time, events>>
histVars == <<attempts, out, dispatched, last_call>>
hostVars == <<connected, profiling, profile_data, phidget, host_pc, threads,
              host_call>>
ctlVars == <<servoVars, settingVars, serialVars, menuVars, histVars, crashed>>
vars == <<ctlVars, hostVars>>

----------------------------------------------------------------------------
(* Units *)

Deg(n) == n * 10
Us(n) == n * 10

----------------------------------------------------------------------------
(* Constants of code.py *)

SERVO_DEFAULT_STATUS == "Controller not found"
SERVO_FREQUENCY == 50
SERVO_RANGE_DEGREES == 45
SERVO_US_PER_DEGREE == 11
SERIAL_LINE_CAP == 64

SERVO_CONFIG ==
    << [name |-> "Left pan",   eye |-> "L", axis |-> "pan",  channel |-> 4,
        zero_pulse_us |-> 1490, direction |-> -1],
       [name |-> "Left tilt",  eye |-> "L", axis |-> "tilt", channel |-> 5,
        zero_pulse_us |-> 1460, direction |-> 1],
       [name |-> "Right pan",  eye |-> "R", axis |-> "pan",  channel |-> 6,
        zero_pulse_us |-> 1560, direction |-> -1],
       [name |-> "Right tilt", eye |-> "R", axis |-> "tilt", channel |-> 7,
        zero_pulse_us |-> 1460, direction |-> -1] >>

EYE_KEYS == <<"L", "R">>
EYE_OPTIONS == <<"L", "R", "B">>
EYE_AXES == <<"pan", "tilt">>

Eyes == {EYE_KEYS[i] : i \in 1..Len(EYE_KEYS)}
Axes == {EYE_AXES[i] : i \in 1..Len(EYE_AXES)}

SERVO_LOOKUP(eye, axis) ==
    CHOOSE servo \in {SERVO_CONFIG[i] : i \in 1..Len(SERVO_CONFIG)} :
        servo.eye = eye /\ servo.axis = axis

NINE_POINT_KEYS ==
    { <<"U","L">>, <<"U","C">>, <<"U","R">>, <<"L">>, <<"C">>, <<"R">>,
      <<"L","L">>, <<"L","C">>, <<"L","R">> }

\* Mutant: the centre key carries the vector of the key next to it.
NINE_POINT_VECTORS_CenterIsRight(key) ==
    CASE key = <<"U","L">> -> <<-1, 1>>
      [] key = <<"U","C">> -> <<0, 1>>
      [] key = <<"U","R">> -> <<1, 1>>
      [] key = <<"L">>     -> <<-1, 0>>
      [] key = <<"C">>     -> <<1, 0>>
      [] key = <<"R">>     -> <<1, 0>>
      [] key = <<"L","L">> -> <<-1, -1>>
      [] key = <<"L","C">> -> <<0, -1>>
      [] key = <<"L","R">> -> <<1, -1>>

NINE_POINT_VECTORS(key) ==
    CASE key = <<"U","L">> -> <<-1, 1>>
      [] key = <<"U","C">> -> <<0, 1>>
      [] key = <<"U","R">> -> <<1, 1>>
      [] key = <<"L">>     -> <<-1, 0>>
      [] key = <<"C">>     -> <<0, 0>>
      [] key = <<"R">>     -> <<1, 0>>
      [] key = <<"L","L">> -> <<-1, -1>>
      [] key = <<"L","C">> -> <<0, -1>>
      [] key = <<"L","R">> -> <<1, -1>>

POINT_DISTANCE_OPTIONS == <<1, 5, 10, 20, 40>>

\* None, where the code holds an option index or a time.
NoIndex == -1
NoTime == -1

\* D2_SELECT_HOLD_SECONDS, in hundredths of a second.
D2_SELECT_HOLD_SECONDS == 60

\* default_option: absent (kind "none"), an int or a str.
MENU ==
    << [name |-> "9-pt",
        options |-> << <<"U","L">>, <<"U","C">>, <<"U","R">>, <<"L">>, <<"C">>,
                       <<"R">>, <<"L","L">>, <<"L","C">>, <<"L","R">> >>,
        default_option |-> [kind |-> "str", value |-> <<"C">>]],
       [name |-> "Zero",
        options |-> <<>>,
        default_option |-> [kind |-> "none"]],
       [name |-> "Settings",
        options |-> <<"Eye", "Range">>,
        default_option |-> [kind |-> "int", value |-> 0]] >>

MENU_9PT_INDEX == 0

\* The 0-based position of value in options (list.index).
IndexOf(options, value) ==
    (CHOOSE i \in 1..Len(options) : options[i] = value) - 1

default_option_index(section) ==
    IF section.options = <<>> THEN NoIndex
    ELSE IF section.default_option.kind = "none" THEN 0
    ELSE IF section.default_option.kind = "int"
         THEN section.default_option.value % Len(section.options)
    ELSE IF \E i \in 1..Len(section.options) :
                section.options[i] = section.default_option.value
         THEN IndexOf(section.options, section.default_option.value)
    ELSE 0

----------------------------------------------------------------------------
(* Text: str.strip, str.split, str.upper, float *)

LowerCase == <<"a","b","c","d","e","f","g","h","i","j","k","l","m",
               "n","o","p","q","r","s","t","u","v","w","x","y","z">>
UpperCase == <<"A","B","C","D","E","F","G","H","I","J","K","L","M",
               "N","O","P","Q","R","S","T","U","V","W","X","Y","Z">>
Digits == <<"0","1","2","3","4","5","6","7","8","9">>
Whitespace == {" ", "\t", "\n", "\r"}

UpperChar(c) ==
    IF \E i \in 1..Len(LowerCase) : LowerCase[i] = c
    THEN UpperCase[CHOOSE i \in 1..Len(LowerCase) : LowerCase[i] = c]
    ELSE c

Upper(s) == [i \in 1..Len(s) |-> UpperChar(s[i])]

Strip(s) ==
    LET keep == {i \in 1..Len(s) : s[i] \notin Whitespace}
    IN  IF keep = {} THEN <<>>
        ELSE LET first == CHOOSE i \in keep : \A j \in keep : i <= j
                 last  == CHOOSE i \in keep : \A j \in keep : j <= i
             IN  SubSeq(s, first, last)

RECURSIVE SplitFrom(_, _, _, _)
SplitFrom(s, i, cur, acc) ==
    IF i > Len(s)
    THEN IF cur = <<>> THEN acc ELSE Append(acc, cur)
    ELSE IF s[i] \in Whitespace
         THEN SplitFrom(s, i + 1, <<>>, IF cur = <<>> THEN acc ELSE Append(acc, cur))
         ELSE SplitFrom(s, i + 1, Append(cur, s[i]), acc)

Split(s) == SplitFrom(s, 1, <<>>, <<>>)

IsDigit(c) == \E i \in 1..Len(Digits) : Digits[i] = c
DigitValue(c) == (CHOOSE i \in 1..Len(Digits) : Digits[i] = c) - 1

RECURSIVE DigitsValue(_)
DigitsValue(ds) ==
    IF ds = <<>> THEN 0
    ELSE DigitsValue(SubSeq(ds, 1, Len(ds) - 1)) * 10 + DigitValue(ds[Len(ds)])

\* Mutant: a token that is no number reads as zero instead of raising.
ParseFloat_ZeroOnError(token) == [ok |-> TRUE, value |-> 0]

\* float(token) for the decimal spellings [sign] digits [ "." digits ] and
\* [sign] "." digits; anything else raises ValueError (ok = FALSE).  The value
\* is in tenths; the tokens enumerated below carry at most one fractional
\* digit, so nothing is lost.  The exponent, "inf", "nan" and "_" spellings
\* that float also accepts are not among the enumerated tokens.
ParseFloat(token) ==
    LET signed == Len(token) >= 1 /\ token[1] \in {"+", "-"}
        body   == IF signed THEN SubSeq(token, 2, Len(token)) ELSE token
        dots   == {i \in 1..Len(body) : body[i] = "."}
        wellFormed ==
            /\ \A i \in 1..Len(body) : IsDigit(body[i]) \/ body[i] = "."
            /\ Cardinality(dots) <= 1
            /\ \E i \in 1..Len(body) : IsDigit(body[i])
        dot    == IF dots = {} THEN Len(body) + 1 ELSE CHOOSE i \in dots : TRUE
        whole  == SubSeq(body, 1, dot - 1)
        frac   == SubSeq(body, dot + 1, Len(body))
        tenths == IF frac = <<>> THEN 0 ELSE DigitValue(frac[1])
        mag    == DigitsValue(whole) * 10 + tenths
    IN  IF ~wellFormed THEN [ok |-> FALSE, value |-> 0]
        ELSE [ok |-> TRUE,
              value |-> IF signed /\ token[1] = "-" THEN 0 - mag ELSE mag]

----------------------------------------------------------------------------
(* Printed lines *)

Line(tag, arg) == [tag |-> tag, arg |-> arg]

----------------------------------------------------------------------------
(* The machine state the handlers thread through their calls.  A handler    *)
(* is a function from the state before to the state after; the outcome of   *)
(* each I2C transaction it makes is an input:                               *)
(*   "noctl"  the controller is not attached: connect_servo_controller      *)
(*            raises, ensure_servo_controller catches it and returns None   *)
(*   "ok"     the controller is (or becomes) attached and the write is      *)
(*            accepted                                                      *)
(*   "raise"  the controller is (or becomes) attached and the duty_cycle    *)
(*            write raises (bus fault); nothing in code.py catches it, so   *)
(*            it unwinds every caller and ends the program                  *)

Machine ==
    [servo_controller |-> servo_controller, servo_status |-> servo_status,
     eye_angles |-> eye_angles, attempts |-> <<>>, out |-> <<>>,
     crashed |-> crashed]

Emit(m, line) == [m EXCEPT !.out = Append(@, line)]

Min(a, b) == IF a <= b THEN a ELSE b
Max(a, b) == IF a >= b THEN a ELSE b

ensure_servo_controller(m, outcome) ==
    IF m.servo_controller # "None" THEN m
    ELSE IF outcome = "noctl"
         THEN Emit([m EXCEPT !.servo_controller = "None",
                             !.servo_status = SERVO_DEFAULT_STATUS],
                   Line("Servo controller connection failed", <<>>))
         ELSE Emit([m EXCEPT !.servo_controller = "PCA9685",
                             !.servo_status = "Controller connected"],
                   Line("Servo controller ready", <<>>))

\* <<quotient, remainder>> of x * n by d for x, n >= 0, by doubling, so that
\* no intermediate value leaves the 32-bit integers of the checker.
RECURSIVE MulDivMod(_, _, _)
MulDivMod(x, n, d) ==
    IF n = 0 THEN <<0, 0>>
    ELSE LET h == MulDivMod(x, n \div 2, d)
             t == 2 * h[2] + x * (n % 2)
         IN  <<2 * h[1] + t \div d, t % d>>

\* Mutant: the result is not clamped.
pulse_us_to_duty_cycle_Unclamped(pulse_us, frequency) ==
    IF pulse_us >= 0
    THEN MulDivMod(pulse_us, frequency * 65535, 10000000)[1]
    ELSE 0 - MulDivMod(0 - pulse_us, frequency * 65535, 10000000)[1]

\* pulse_us in tenths of a microsecond.  (pulse_seconds / period_seconds) *
\* 0xFFFF is pulse_us * frequency * 65535 / 10^6; int() truncates toward zero.
pulse_us_to_duty_cycle(pulse_us, frequency) ==
    LET mag        == IF pulse_us >= 0 THEN pulse_us ELSE 0 - pulse_us
        scaled     == MulDivMod(mag, frequency * 65535, 10000000)[1]
        duty_cycle == IF pulse_us >= 0 THEN scaled ELSE 0 - scaled
    IN  Max(0, Min(65535, duty_cycle))

\* A definition named XxxWith(r, ...) is the rest of function xxx after the
\* call whose result is r.

\* Returns the state after and how the call ended: "ok" (True), "noctl"
\* (False) or "raised" (the exception left the function).
SetServoPulseWith(m1, outcome) ==
    IF m1.servo_controller = "None" THEN [m |-> m1, result |-> "noctl"]
    ELSE IF outcome = "raise"
         THEN [m |-> [m1 EXCEPT !.crashed = TRUE], result |-> "raised"]
         ELSE [m |-> m1, result |-> "ok"]

set_servo_pulse(m, channel, pulse_us, outcome) ==
    SetServoPulseWith(ensure_servo_controller(m, outcome), outcome)

\* Mutant: the upper bound is not applied.
clamp_degrees_LowerOnly(value) == Max(0 - Deg(SERVO_RANGE_DEGREES), value)

\* Mutant: the lower bound is not applied.
clamp_degrees_UpperOnly(value) == Min(Deg(SERVO_RANGE_DEGREES), value)

clamp_degrees(value) ==
    Max(0 - Deg(SERVO_RANGE_DEGREES), Min(Deg(SERVO_RANGE_DEGREES), value))

\* Mutant: the axis's direction sign is left out.
AxisPulse_NoDirection(servo, clamped) ==
    Us(servo.zero_pulse_us) + clamped * SERVO_US_PER_DEGREE

\* The pulse in tenths of a microsecond.
AxisPulse(servo, clamped) ==
    Us(servo.zero_pulse_us) + servo.direction * clamped * SERVO_US_PER_DEGREE

\* The record of one axis command, and what set_axis_angle returns.
SetAxisAngleWith(r, eye, axis, degrees, servo, clamped, pulse) ==
    [m |-> [r.m EXCEPT !.attempts =
                Append(@, [eye |-> eye, axis |-> axis, requested |-> degrees,
                           clamped |-> clamped, channel |-> servo.channel,
                           pulse |-> pulse,
                           duty |-> pulse_us_to_duty_cycle(pulse, SERVO_FREQUENCY),
                           result |-> r.result])],
     success |-> (r.result = "ok"), clamped |-> clamped]

SetAxisAngleOn(m, eye, axis, degrees, outcome, servo, clamped) ==
    SetAxisAngleWith(
        set_servo_pulse(m, servo.channel, AxisPulse(servo, clamped), outcome),
        eye, axis, degrees, servo, clamped, AxisPulse(servo, clamped))

set_axis_angle(m, eye, axis, degrees, outcome) ==
    IF m.crashed THEN [m |-> m, success |-> FALSE, clamped |-> 0]
    ELSE SetAxisAngleOn(m, eye, axis, degrees, outcome,
                        SERVO_LOOKUP(eye, axis), clamp_degrees(degrees))

\* Lines 283-291 of move_eye_to_angles, reached only when neither call raised.
MoveEyeStore(p, t, eye) ==
    IF t.m.crashed THEN [m |-> t.m, ok |-> FALSE]
    ELSE [m |-> [t.m EXCEPT
                   !.eye_angles[eye]["pan"]  = IF p.success THEN p.clamped ELSE @,
                   !.eye_angles[eye]["tilt"] = IF t.success THEN t.clamped ELSE @],
          ok |-> p.success /\ t.success]

MoveEyeWith(p, eye, tilt_deg, o2) ==
    MoveEyeStore(p, set_axis_angle(p.m, eye, "tilt", tilt_deg, o2), eye)

move_eye_to_angles(m, eye, pan_deg, tilt_deg, o1, o2) ==
    MoveEyeWith(set_axis_angle(m, eye, "pan", pan_deg, o1), eye, tilt_deg, o2)

get_eye_selection == EYE_OPTIONS[eye_selection_index + 1]
get_point_distance == Deg(POINT_DISTANCE_OPTIONS[point_distance_index + 1])

get_target_eyes ==
    IF get_eye_selection = "L" THEN <<"L">>
    ELSE IF get_eye_selection = "R" THEN <<"R">>
    ELSE EYE_KEYS

\* The loop of apply_point_selection over get_target_eyes(), from eye number i.
RECURSIVE PointLoop(_, _, _, _, _, _, _)

PointLoopWith(r, applied, point_key, pan_deg, tilt_deg, i, env) ==
    IF r.ok
    THEN PointLoop(Emit(r.m, Line("Moved eye", <<get_target_eyes[i], point_key>>)),
                   TRUE, point_key, pan_deg, tilt_deg, i + 1, env)
    ELSE PointLoop(r.m, applied, point_key, pan_deg, tilt_deg, i + 1, env)

PointLoop(m, applied, point_key, pan_deg, tilt_deg, i, env) ==
    IF i > Len(get_target_eyes) \/ m.crashed THEN [m |-> m, applied |-> applied]
    ELSE PointLoopWith(
             move_eye_to_angles(m, get_target_eyes[i], pan_deg, tilt_deg,
                                env[2 * i - 1], env[2 * i]),
             applied, point_key, pan_deg, tilt_deg, i, env)

apply_point_selection(m, point_key, env) ==
    IF point_key \notin NINE_POINT_KEYS
    THEN [m |-> Emit(m, Line("Unknown 9-pt selection", point_key)),
          applied |-> FALSE]
    ELSE PointLoop(m, FALSE, point_key,
                   NINE_POINT_VECTORS(point_key)[1] * get_point_distance,
                   NINE_POINT_VECTORS(point_key)[2] * get_point_distance, 1, env)

\* An argument of perform_saccade: None (hold) or a number.
None == [hold |-> TRUE, value |-> 0]
Num(v) == [hold |-> FALSE, value |-> v]

\* Mutant: a held axis is sent to the centre instead of its current angle.
saccade_value_HoldIsZero(m, arg, eye, axis) == IF arg.hold THEN 0 ELSE arg.value

\* eye_angles[eye][axis] if arg is None else arg
saccade_value(m, arg, eye, axis) ==
    IF arg.hold THEN m.eye_angles[eye][axis] ELSE arg.value

PerformSaccadeResult(l, r, applied) ==
    [m |-> r.m, success |-> l.ok /\ r.ok, applied |-> applied]

PerformSaccadeWith(l, applied, env) ==
    PerformSaccadeResult(
        l,
        IF l.m.crashed THEN l
        ELSE move_eye_to_angles(l.m, "R", applied[3], applied[4], env[3], env[4]),
        applied)

PerformSaccadeOn(m, applied, env) ==
    PerformSaccadeWith(
        move_eye_to_angles(m, "L", applied[1], applied[2], env[1], env[2]),
        applied, env)

perform_saccade(m, left_pan, left_tilt, right_pan, right_tilt, env) ==
    PerformSaccadeOn(m,
        << saccade_value(m, left_pan, "L", "pan"),
           saccade_value(m, left_tilt, "L", "tilt"),
           saccade_value(m, right_pan, "R", "pan"),
           saccade_value(m, right_tilt, "R", "tilt") >>,
        env)

HOLD_TOKENS ==
    { <<"X">>, <<"H">>, <<"H","O","L","D">>, <<"S","K","I","P">>,
      <<"K","E","E","P">>, <<"N","C">> }

ParseSaccadeNumber(f) == [ok |-> f.ok, arg |-> Num(f.value)]

\* ok = FALSE is float()'s ValueError.
parse_saccade_arg(token) ==
    IF Upper(Strip(token)) \in HOLD_TOKENS THEN [ok |-> TRUE, arg |-> None]
    ELSE ParseSaccadeNumber(ParseFloat(token))

\* Mutant: the keyword is matched by its first three letters.
is_saccade_key_Prefix(command_key) ==
    Len(command_key) >= 3 /\ SubSeq(command_key, 1, 3) = <<"S","A","C">>

\* command_key in ("SAC", "SACCADE")
is_saccade_key(command_key) ==
    command_key \in { <<"S","A","C">>, <<"S","A","C","C","A","D","E">> }

\* Mutant: only too few arguments are rejected.
saccade_arity_ok_AtLeast(args) == Len(args) >= 4

\* len(args) != 4 is the wrong-arity rejection.
saccade_arity_ok(args) == Len(args) = 4

\* The response to a nine-point key.
RespondPoint(r, command_key) ==
    IF r.m.crashed THEN r.m
    ELSE IF r.applied THEN Emit(r.m, Line("CMD OK 9PT", command_key))
    ELSE Emit(r.m, Line("CMD ERR 9PT", command_key))

\* The response to a SAC whose four tokens parsed.
RespondSaccade(r) ==
    IF r.m.crashed THEN r.m
    ELSE IF r.success THEN Emit(r.m, Line("CMD OK SAC", r.applied))
    ELSE Emit(r.m, Line("CMD ERR SAC move failed", <<>>))

\* The try block: the four tokens parsed in order, ValueError caught.
HandleSaccade(m, parsed, env) ==
    IF \E i \in 1..4 : ~parsed[i].ok
    THEN Emit(m, Line("CMD ERR SAC invalid angle", <<>>))
    ELSE RespondSaccade(perform_saccade(m, parsed[1].arg, parsed[2].arg,
                                        parsed[3].arg, parsed[4].arg, env))

HandleKey(m, command, command_key, args, env) ==
    IF args = <<>> /\ command_key \in NINE_POINT_KEYS
    THEN RespondPoint(apply_point_selection(m, command_key, env), command_key)
    ELSE IF is_saccade_key(command_key)
    THEN IF ~saccade_arity_ok(args)
         THEN Emit(m, Line("CMD ERR SAC needs 4 angles", <<>>))
         ELSE HandleSaccade(m, [i \in 1..4 |-> parse_saccade_arg(args[i])], env)
    ELSE Emit(m, Line("CMD ERR Unknown command:", command))

HandleParts(m, command, parts, env) ==
    HandleKey(m, command, Upper(parts[1]), SubSeq(parts, 2, Len(parts)), env)

HandleStripped(m, command, env) ==
    IF command = <<>> THEN m
    ELSE HandleParts(m, command, Split(command), env)

handle_serial_command(m, text, env) == HandleStripped(m, Strip(text), env)

----------------------------------------------------------------------------
(* The environment: outcomes of the I2C transactions of one handler run.    *)
(* The controller, once attached, stays attached (servo_controller is never *)
(* reset), and the first write that raises ends the run, so the outcomes of *)
(* up to four axis commands are: not attached for the first k-1, then       *)
(* accepted, except that command r raises.                                  *)

AxisCount == Len(SERVO_CONFIG)

Envs ==
    { [i \in 1..AxisCount |->
          IF i < k THEN "noctl" ELSE IF i = r THEN "raise" ELSE "ok"] :
      k \in IF servo_controller = "None" THEN 1..(AxisCount + 1) ELSE {1},
      r \in 1..(AxisCount + 1) }

----------------------------------------------------------------------------
(* Command lines offered to handle_serial_command *)

Sp == <<" ">>
SAC == <<"S","A","C">>
SacLine(kw, a, b, c, d) == kw \o Sp \o a \o Sp \o b \o Sp \o c \o Sp \o d

LeftPanTokens   == { <<"1","0">>, <<"x">>, <<"+","4","6">> }
LeftTiltTokens  == { <<"X">>, <<"-","2",".","5">> }
RightPanTokens  == { <<"5">>, <<"S","k","i","p">> }
RightTiltTokens == { <<"N","C">>, <<"7">> }

SacLines ==
    { SacLine(SAC, a, b, c, d) :
        a \in LeftPanTokens, b \in LeftTiltTokens,
        c \in RightPanTokens, d \in RightTiltTokens }
    \cup
    { SacLine(<<"s","a","c","c","a","d","e">>, <<"4","5",".">>, <<".","0">>,
              <<"-","9","0">>, <<"n","c">>),
      SacLine(<<"S","a","c">>, <<"k","e","e","p">>, <<"h","o","l","d">>,
              <<"-","4","5">>, <<"0","7">>),
      SacLine(SAC, <<"H">>, <<"h">>, <<"K","E","E","P">>, <<"s","k","i","p">>),
      <<" ">> \o SacLine(SAC, <<"1","0",".","0">>, <<"-","0","2",".","5">>,
                         <<"+","5">>, <<"7",".">>) \o <<" ">>,
      SacLine(SAC, <<"a","b","c">>, <<"X">>, <<"5">>, <<"N","C">>),
      SacLine(SAC, <<"1","0">>, <<"X">>, <<"5">>, <<"1","O">>),
      SacLine(<<"s","a","c">>, <<"1","0">>, <<"-","-","5">>, <<"5">>, <<"7">>),
      SacLine(<<"S","A","C","C","A","D","E">>, <<"H">>, <<"0","7">>,
              <<"1",".","2",".","3">>, <<"X">>) }

ArityLines ==
    { SAC,
      SAC \o Sp \o <<"1">> \o Sp \o <<"2">> \o Sp \o <<"3">>,
      <<"s","a","c">> \o Sp \o <<"x">>,
      SAC \o Sp \o <<"a","b","c">>,
      SacLine(<<"S","A","C","C","A","D","E">>, <<"1">>, <<"2">>, <<"3">>, <<"4">>)
          \o Sp \o <<"5">> }

NinePointLines ==
    { <<"C">>, <<"u","r">>, <<" ","U","R"," ">> }

UnknownLines ==
    { <<"Q">>,
      <<"M","O","V","E">> \o Sp \o <<"1">> \o Sp \o <<"2">>,
      <<"C">> \o Sp \o <<"5">>,
      SacLine(<<"S","A","C","C">>, <<"1">>, <<"2">>, <<"3">>, <<"4">>),
      <<"z","e","r","o">>,
      <<"9">> }

BlankLines == { <<>>, <<" ">>, <<" ", "\t">> }

CommandLines ==
    SacLines \cup ArityLines \cup NinePointLines \cup UnknownLines \cup BlankLines

----------------------------------------------------------------------------
(* The host tool, saccade.py: the state of a SaccadeController and of the   *)
(* Phidget device behind it.  Positions are absolute servo angles in tenths *)
(* of a degree.                                                             *)

Abs(v) == IF v < 0 THEN 0 - v ELSE v

\* SaccadeController.__init__(pan_zero=97.0, tilt_zero=93.0)
pan_zero == Deg(97)
tilt_zero == Deg(93)

PAN_CHANNEL == 0
TILT_CHANNEL == 1

\* What getPositionMin / getPositionMax answer for the two channels,
\* <<pan_min, pan_max, tilt_min, tilt_max>>: a property of the attached
\* device, read anew by every check.
DeviceLimits ==
    << <<Deg(70), Deg(120), Deg(70), Deg(120)>>,
       <<Deg(90), Deg(120), Deg(70), Deg(120)>> >>

\* The state after SaccadeController(): not connected, no profile.  The
\* servos rest where they were left, here at the zero position.
HostInit(limits) ==
    /\ connected = FALSE
    /\ profiling = FALSE
    /\ profile_data = <<>>
    /\ phidget = [limits |-> limits,
                  position |-> <<pan_zero, tilt_zero>>,
                  commanded |-> <<pan_zero, tilt_zero>>]
    /\ host_pc = "idle"
    /\ threads = <<>>
    /\ host_call = [name |-> "init", x |-> 0, y |-> 0, check_limits |-> FALSE,
                    calls |-> <<>>, returned |-> "None", errors |-> <<>>,
                    timed_out |-> FALSE, grew |-> FALSE, after |-> <<>>]

----------------------------------------------------------------------------
(* Initial state: the module-level assignments of code.py *)

\* Everything but the two settings.
InitRest ==
    /\ servo_controller = "None"
    /\ servo_status = SERVO_DEFAULT_STATUS
    /\ eye_angles = [eye \in Eyes |-> [axis \in Axes |-> 0]]
    /\ serial_command_buffer = <<>>
    /\ serial_connected \in BOOLEAN
    /\ crashed = FALSE
    /\ attempts = <<>>
    /\ out = <<>>
    /\ dispatched = <<>>
    /\ last_call = <<"init">>
    /\ cur_line = <<>>
    /\ overflowed = FALSE
    /\ stale_chars = 0
    /\ current_menu_index = 0
    /\ current_option_indices =
           [i \in 1..Len(MENU) |-> default_option_index(MENU[i])]
    /\ selected_option_indices =
           [i \in 1..Len(MENU) |-> default_option_index(MENU[i])]
    /\ d2_press_time = NoTime
    /\ events = 0

Init ==
    /\ eye_selection_index = IndexOf(EYE_OPTIONS, "B")
    /\ point_distance_index = IndexOf(POINT_DISTANCE_OPTIONS, 10)
    /\ InitRest
    /\ HostInit(DeviceLimits[1])

\* The variables a handler run leaves behind.
Commit(m) ==
    /\ servo_controller' = m.servo_controller
    /\ servo_status' = m.servo_status
    /\ eye_angles' = m.eye_angles
    /\ crashed' = m.crashed
    /\ attempts' = m.attempts
    /\ out' = m.out

----------------------------------------------------------------------------
(* The history variables describe one step.  They are read off after the    *)
(* step and cleared by the next quiet pass of the main loop (no serial      *)
(* byte pending, no key event), and a handler runs from a cleared history.  *)
(* The program variables do not depend on the history, so every sequence of *)
(* handler runs is still a behaviour, with quiet passes in between.         *)

Quiet == last_call[1] \in {"init", "idle"}

MainLoopIdle ==
    /\ ~crashed
    /\ ~Quiet
    /\ attempts' = <<>>
    /\ out' = <<>>
    /\ dispatched' = <<>>
    /\ last_call' = <<"idle">>
    /\ UNCHANGED <<servoVars, settingVars, serialVars, menuVars, hostVars, crashed>>

----------------------------------------------------------------------------
(* Spec: one command line at a time handed to handle_serial_command *)

SerialCommand(text) ==
    /\ ~crashed
    /\ Quiet
    /\ serial_connected
    /\ \E env \in Envs : Commit(handle_serial_command(Machine, text, env))
    /\ dispatched' = <<text>>
    /\ last_call' = <<"handle_serial_command", text>>
    /\ UNCHANGED <<settingVars, serialVars, menuVars, hostVars>>

Next ==
    \/ \E text \in CommandLines : SerialCommand(text)
    \/ MainLoopIdle

Spec == Init /\ [][Next]_vars

----------------------------------------------------------------------------
(* SpecAxis: set_axis_angle applied to every eye, axis and angle *)

MaxAngle == 50

AngleInputs == (0 - Deg(MaxAngle))..Deg(MaxAngle)

SetAxisAngle(eye, axis, degrees, outcome) ==
    /\ ~crashed
    /\ Quiet
    /\ Commit(set_axis_angle(Machine, eye, axis, degrees, outcome).m)
    /\ dispatched' = <<>>
    /\ last_call' = <<"set_axis_angle", eye, axis, degrees>>
    /\ UNCHANGED <<settingVars, serialVars, menuVars, hostVars>>

NextAxis ==
    \/ \E eye \in Eyes, axis \in Axes, degrees \in AngleInputs,
          outcome \in {"noctl", "ok", "raise"} :
           SetAxisAngle(eye, axis, degrees, outcome)
    \/ MainLoopIdle

SpecAxis == Init /\ [][NextAxis]_vars

----------------------------------------------------------------------------
(* SpecDuty: pulse_us_to_duty_cycle and set_servo_pulse called directly,    *)
(* with pulse widths no angle clamping has been applied to: negative ones,  *)
(* zero, the servo range, and widths up to and past the PWM period of each  *)
(* frequency.                                                               *)

\* The longest pulse offered, in microseconds, and the step between pulses.
MaxPulse == 25000
PulseStep == 250

PulseInputs ==
    { Us(k * PulseStep) : k \in (0 - MaxPulse \div PulseStep)..(MaxPulse \div PulseStep) }
    \cup { 0 - 1, 1, Us(1) - 1, Us(20000) - 1, Us(20000) + 1, Us(1000) + 3 }

\* controller.frequency in Hz.
Frequencies == { 1, 40, SERVO_FREQUENCY, 60, 333, 1000 }

PulseToDuty(pulse_us, frequency) ==
    /\ ~crashed
    /\ Quiet
    /\ last_call' = <<"pulse_us_to_duty_cycle", pulse_us, frequency,
                      pulse_us_to_duty_cycle(pulse_us, frequency)>>
    /\ UNCHANGED <<servoVars, attempts, out, dispatched, crashed, settingVars,
                   serialVars, menuVars, hostVars>>

\* set_servo_pulse(channel, pulse_us); the duty is the value handed to the
\* channel at line 260, where a write is made.
SetServoPulseStep(r, channel, pulse_us, frequency) ==
    /\ Commit(r.m)
    /\ last_call' = <<"set_servo_pulse", channel, pulse_us, r.result,
                      pulse_us_to_duty_cycle(pulse_us, frequency)>>

SetServoPulse(channel, pulse_us, outcome) ==
    /\ ~crashed
    /\ Quiet
    /\ SetServoPulseStep(set_servo_pulse(Machine, channel, pulse_us, outcome),
                         channel, pulse_us, SERVO_FREQUENCY)
    /\ dispatched' = <<>>
    /\ UNCHANGED <<settingVars, serialVars, menuVars, hostVars>>

NextDuty ==
    \/ \E pulse_us \in PulseInputs, frequency \in Frequencies :
           PulseToDuty(pulse_us, frequency)
    \/ \E channel \in 0..3, pulse_us \in PulseInputs,
          outcome \in {"noctl", "ok", "raise"} :
           SetServoPulse(channel, pulse_us, outcome)
    \/ MainLoopIdle

SpecDuty == Init /\ [][NextDuty]_vars

----------------------------------------------------------------------------
(* SpecPoint: apply_point_selection under every eye-target and distance     *)
(* setting the Settings menu can leave behind, called with every nine-point *)
(* key and with keys it does not know, and reached through the serial       *)
(* nine-point commands.                                                     *)

InitPoint ==
    /\ eye_selection_index \in 0..(Len(EYE_OPTIONS) - 1)
    /\ point_distance_index \in 0..(Len(POINT_DISTANCE_OPTIONS) - 1)
    /\ InitRest
    /\ HostInit(DeviceLimits[1])

PointKeys == NINE_POINT_KEYS \cup { <<"Q">>, <<"u","r">>, <<>> }

\* What the call returned: "True", "False", or "raised" when an exception
\* left it.
Returned(r) ==
    IF r.m.crashed THEN "raised" ELSE IF r.applied THEN "True" ELSE "False"

ApplyPointSelectionWith(r, point_key) ==
    /\ Commit(r.m)
    /\ last_call' = <<"apply_point_selection", point_key, Returned(r)>>

ApplyPointSelection(point_key) ==
    /\ ~crashed
    /\ Quiet
    /\ \E env \in Envs :
           ApplyPointSelectionWith(apply_point_selection(Machine, point_key, env),
                                   point_key)
    /\ dispatched' = <<>>
    /\ UNCHANGED <<settingVars, serialVars, menuVars, hostVars>>

NextPoint ==
    \/ \E point_key \in PointKeys : ApplyPointSelection(point_key)
    \/ \E text \in NinePointLines : SerialCommand(text)
    \/ MainLoopIdle

SpecPoint == InitPoint /\ [][NextPoint]_vars

----------------------------------------------------------------------------
(* SpecSerial: poll_serial_commands, one character of the stream at a time. *)
(* The lines offered are a run of one filler character (a letter or a       *)
(* blank) followed by a short tail, so that lines of every length up to     *)
(* past the cap occur, with and without a command at their end.             *)

MaxFill == 66

Fillers == {"Z", " "}
Tails == { <<"C">>, <<"Q">>, <<"c", " ">> }
Terminators == {"\n", "\r"}
StreamChars == Fillers \cup {"C", "Q", "c"} \cup Terminators

IsPrefix(p, t) == Len(p) <= Len(t) /\ SubSeq(t, 1, Len(p)) = p

\* The filler run at the start of a line.
RECURSIVE RunLength(_, _, _)
RunLength(line, f, i) ==
    IF i > Len(line) \/ line[i] # f THEN i - 1 ELSE RunLength(line, f, i + 1)

OfferedLine(line) ==
    \E f \in Fillers :
        LET run == RunLength(line, f, 1)
        IN  \E n \in {run, run - 1} :
                /\ n >= 0 /\ n <= MaxFill
                /\ \E t \in Tails : IsPrefix(SubSeq(line, n + 1, Len(line)), t)

\* Mutant: only the newline ends a line.
is_line_terminator_NewlineOnly(char) == char = "\n"

\* char in ("\n", "\r")
is_line_terminator(char) == char \in {"\n", "\r"}

\* Mutant: the cap is one character too high.
line_too_long_OffByOne(buffer) == Len(buffer) > SERIAL_LINE_CAP + 1

\* len(serial_command_buffer) > 64
line_too_long(buffer) == Len(buffer) > SERIAL_LINE_CAP

\* One pass of the while loop of poll_serial_commands: the character read.
ReadChar(char) ==
    /\ ~crashed
    /\ serial_connected
    /\ char \in Terminators \/ OfferedLine(Append(cur_line, char))
    /\ IF is_line_terminator(char)
       THEN LET command == Strip(serial_command_buffer)
            IN  /\ serial_command_buffer' = <<>>
                /\ IF command # <<>>
                   THEN /\ \E env \in Envs :
                              Commit(handle_serial_command(Machine, command, env))
                        /\ dispatched' = <<command>>
                   ELSE /\ Commit(Machine)
                        /\ dispatched' = <<>>
                /\ stale_chars' = 0
                /\ UNCHANGED overflowed
       ELSE LET buffer == Append(serial_command_buffer, char)
            IN  /\ IF line_too_long(buffer)
                   THEN /\ serial_command_buffer' = <<>>
                        /\ Commit(Emit(Machine, Line("CMD ERR Line too long", <<>>)))
                        /\ overflowed' = TRUE
                        /\ stale_chars' = 0
                   ELSE /\ serial_command_buffer' = buffer
                        /\ Commit(Machine)
                        /\ UNCHANGED <<overflowed, stale_chars>>
                /\ dispatched' = <<>>
    /\ cur_line' = IF char \in Terminators THEN <<>> ELSE Append(cur_line, char)
    /\ last_call' = <<"poll_serial_commands", char, cur_line>>
    /\ UNCHANGED <<settingVars, menuVars, hostVars, serial_connected>>

\* poll_serial_commands while the host is not connected.
PollNotConnected ==
    /\ ~crashed
    /\ ~serial_connected
    /\ serial_command_buffer' = <<>>
    /\ cur_line' = <<>>
    /\ stale_chars' = 0
    /\ Commit(Machine)
    /\ dispatched' = <<>>
    /\ last_call' = <<"poll_serial_commands", "not connected", cur_line>>
    /\ UNCHANGED <<settingVars, menuVars, hostVars, serial_connected, overflowed>>

\* The host opens the serial link.
SerialConnect ==
    /\ ~crashed
    /\ ~serial_connected
    /\ serial_connected' = TRUE
    /\ UNCHANGED <<servoVars, settingVars, menuVars, hostVars, serial_command_buffer,
                   cur_line, overflowed, stale_chars, histVars, crashed>>

\* The longest partial line the link is lost on.
MaxStale == 1

\* The host closes the serial link (or the cable is pulled), at any moment
\* between two reads of the foreground loop.  Whatever the buffer holds now
\* arrived before the loss.
SerialDisconnect ==
    /\ ~crashed
    /\ serial_connected
    /\ Len(serial_command_buffer) <= MaxStale
    /\ serial_connected' = FALSE
    /\ stale_chars' = Len(serial_command_buffer)
    /\ UNCHANGED <<servoVars, settingVars, menuVars, hostVars, serial_command_buffer,
                   cur_line, overflowed, histVars, crashed>>

NextSerial ==
    \/ \E char \in StreamChars : ReadChar(char)
    \/ PollNotConnected
    \/ SerialConnect

SpecSerial == Init /\ [][NextSerial]_vars

----------------------------------------------------------------------------
(* SpecLink: SpecSerial with a serial link that can be lost and regained    *)

NextLink ==
    \/ NextSerial
    \/ SerialDisconnect

SpecLink == Init /\ [][NextLink]_vars

----------------------------------------------------------------------------
(* The menu: render_options, zero_servos, cycle_menu, cycle_option and      *)
(* handle_selection.  Of render_options only the call that touches program  *)
(* state is kept (the labels it draws are not modelled).                    *)

\* render_options for the section at menu_index (0-based).
render_options(m, menu_index, outcome) ==
    IF MENU[menu_index + 1].name = "Settings"
    THEN ensure_servo_controller(m, outcome)
    ELSE m

\* The loop of zero_servos over EYE_KEYS, from eye number i.
RECURSIVE ZeroLoop(_, _, _, _)

ZeroLoopWith(r, success, i, env) ==
    IF r.m.crashed THEN [m |-> r.m, success |-> FALSE]
    ELSE IF r.ok THEN ZeroLoop(r.m, success, i + 1, env)
    ELSE ZeroLoop(Emit(r.m, Line("Failed to zero eye", EYE_KEYS[i])),
                  FALSE, i + 1, env)

ZeroLoop(m, success, i, env) ==
    IF i > Len(EYE_KEYS) THEN [m |-> m, success |-> success]
    ELSE ZeroLoopWith(
             move_eye_to_angles(m, EYE_KEYS[i], 0, 0, env[2 * i - 1], env[2 * i]),
             success, i, env)

\* Lines 401-406: what zero_servos leaves in selected_option_indices.
ZeroSelected(selected, r) ==
    IF r.success /\ ~r.m.crashed
       /\ \E i \in 1..Len(MENU[MENU_9PT_INDEX + 1].options) :
              MENU[MENU_9PT_INDEX + 1].options[i] = <<"C">>
    THEN [selected EXCEPT ![MENU_9PT_INDEX + 1] =
              IndexOf(MENU[MENU_9PT_INDEX + 1].options, <<"C">>)]
    ELSE selected

ZeroServosResult(r) ==
    [m |-> IF r.success /\ ~r.m.crashed
           THEN Emit(r.m, Line("All servos centered.", <<>>)) ELSE r.m,
     success |-> r.success]

zero_servos(m, env) == ZeroServosResult(ZeroLoop(m, TRUE, 1, env))

\* Mutant: the section index stops at the last section.
next_menu_index_NoWrap(index) == Min(index + 1, Len(MENU) - 1)

\* (current_menu_index + 1) % len(MENU)
next_menu_index(index) == (index + 1) % Len(MENU)

CycleMenuWith(new) ==
    /\ current_menu_index' = new
    /\ current_option_indices' =
           IF MENU[new + 1].options # <<>> /\ current_option_indices[new + 1] = NoIndex
           THEN [current_option_indices EXCEPT ![new + 1] = 0]
           ELSE current_option_indices
    /\ \E outcome \in {"noctl", "ok"} : Commit(render_options(Machine, new, outcome))
    /\ UNCHANGED <<selected_option_indices, settingVars>>

cycle_menu == CycleMenuWith(next_menu_index(current_menu_index))

\* Mutant: the cursor wraps one step late.
next_option_index_WrapsLate(current, options) ==
    ((IF current = NoIndex THEN 0 ELSE current) + 1) % (Len(options) + 1)

\* Mutant: the cursor stops at the last option.
next_option_index_NoWrap(current, options) ==
    Min((IF current = NoIndex THEN 0 ELSE current) + 1, Len(options) - 1)

\* ((current_option_indices[current_menu_index] or 0) + 1) % len(options)
next_option_index(current, options) ==
    ((IF current = NoIndex THEN 0 ELSE current) + 1) % Len(options)

cycle_option ==
    IF MENU[current_menu_index + 1].options = <<>>
    THEN /\ Commit(Machine)
         /\ UNCHANGED <<current_menu_index, current_option_indices,
                        selected_option_indices, settingVars>>
    ELSE /\ current_option_indices' =
                [current_option_indices EXCEPT ![current_menu_index + 1] =
                    next_option_index(@, MENU[current_menu_index + 1].options)]
         /\ \E outcome \in {"noctl", "ok"} :
                Commit(render_options(Machine, current_menu_index, outcome))
         /\ UNCHANGED <<current_menu_index, selected_option_indices, settingVars>>

\* handle_selection in the Zero section; r is what the loop of zero_servos
\* returned.  An exception leaves before line 550.
SelectZeroWith(r) ==
    /\ Commit(ZeroServosResult(r).m)
    /\ selected_option_indices' =
           IF r.m.crashed THEN selected_option_indices
           ELSE [ZeroSelected(selected_option_indices, r)
                     EXCEPT ![current_menu_index + 1] = 0]
    /\ UNCHANGED <<current_menu_index, current_option_indices, settingVars>>

cycle_eye_selection == (eye_selection_index + 1) % Len(EYE_OPTIONS)

\* Mutant: the range stops at its last value.
cycle_point_distance_NoWrap ==
    Min(point_distance_index + 1, Len(POINT_DISTANCE_OPTIONS) - 1)

cycle_point_distance == (point_distance_index + 1) % Len(POINT_DISTANCE_OPTIONS)

\* handle_selection in the Settings section.
SelectSetting(section, option_index) ==
    IF option_index = NoIndex \/ option_index >= Len(section.options)
    THEN /\ Commit(Machine)
         /\ UNCHANGED <<current_menu_index, current_option_indices,
                        selected_option_indices, settingVars>>
    ELSE /\ selected_option_indices' =
                [selected_option_indices EXCEPT ![current_menu_index + 1] =
                    option_index]
         /\ IF section.options[option_index + 1] = "Eye"
            THEN /\ eye_selection_index' = cycle_eye_selection
                 /\ UNCHANGED point_distance_index
                 /\ \E outcome \in {"noctl", "ok"} :
                        Commit(render_options(
                            Emit(Machine, Line("Settings -> Eye target",
                                               EYE_OPTIONS[cycle_eye_selection + 1])),
                            current_menu_index, outcome))
            ELSE IF section.options[option_index + 1] = "Range"
            THEN /\ point_distance_index' = cycle_point_distance
                 /\ UNCHANGED eye_selection_index
                 /\ \E outcome \in {"noctl", "ok"} :
                        Commit(render_options(
                            Emit(Machine, Line("Settings -> Range",
                                    POINT_DISTANCE_OPTIONS[cycle_point_distance + 1])),
                            current_menu_index, outcome))
            ELSE /\ UNCHANGED settingVars
                 /\ \E outcome \in {"noctl", "ok"} :
                        Commit(render_options(Machine, current_menu_index, outcome))
         /\ UNCHANGED <<current_menu_index, current_option_indices>>

\* handle_selection in any other section (lines 569-579).
SelectOption(section, option_index) ==
    /\ IF option_index # NoIndex /\ section.options # <<>>
       THEN /\ selected_option_indices' =
                   [selected_option_indices EXCEPT ![current_menu_index + 1] =
                       option_index]
            /\ IF section.name = "9-pt"
               THEN \E env \in Envs :
                        Commit(apply_point_selection(
                                   Emit(Machine, Line("Selected",
                                            section.options[option_index + 1])),
                                   section.options[option_index + 1], env).m)
               ELSE Commit(Emit(Machine, Line("Selected",
                                              section.options[option_index + 1])))
       ELSE /\ selected_option_indices' =
                   [selected_option_indices EXCEPT ![current_menu_index + 1] = 0]
            /\ Commit(Emit(Machine, Line("Selected", section.name)))
    /\ UNCHANGED <<current_menu_index, current_option_indices, settingVars>>

handle_selection ==
    IF MENU[current_menu_index + 1].name = "Zero"
    THEN \E env \in Envs : SelectZeroWith(ZeroLoop(Machine, TRUE, 1, env))
    ELSE IF MENU[current_menu_index + 1].name = "Settings"
    THEN SelectSetting(MENU[current_menu_index + 1],
                       current_option_indices[current_menu_index + 1])
    ELSE SelectOption(MENU[current_menu_index + 1],
                      current_option_indices[current_menu_index + 1])

----------------------------------------------------------------------------
(* SpecMenu: the key events of the main loop.  The clock reading at a D2    *)
(* press is drawn from PressTimes; the reading at a release is the recorded *)
(* press time plus a duration from HeldTimes (time.monotonic() never goes   *)
(* back).  Times are in hundredths of a second.                             *)

MaxEvents == 8

PressTimes == {0, 130}
HeldTimes == {0, 59, 60, 200}

\* The history of a key event: the key, the edge, what the loop ran for it,
\* the press time recorded before it and the clock reading the loop took
\* (NoTime when it took none).
KeyEvent(name, kind, action, now) ==
    /\ events' = events + 1
    /\ dispatched' = <<>>
    /\ last_call' = <<"key", name, kind, action, d2_press_time, now>>
    /\ UNCHANGED <<serialVars, hostVars>>

KeyGuard == ~crashed /\ Quiet /\ events < MaxEvents

\* D0 pressed: select.
D0Pressed ==
    /\ KeyGuard
    /\ handle_selection
    /\ KeyEvent("D0", "pressed", "handle_selection", NoTime)
    /\ UNCHANGED d2_press_time

\* D1 pressed: step the option cursor.
D1Pressed ==
    /\ KeyGuard
    /\ cycle_option
    /\ KeyEvent("D1", "pressed", "cycle_option", NoTime)
    /\ UNCHANGED d2_press_time

\* D0 or D1 released: no branch of the loop takes it.
D0D1Released(name) ==
    /\ KeyGuard
    /\ Commit(Machine)
    /\ KeyEvent(name, "released", "none", NoTime)
    /\ UNCHANGED <<current_menu_index, current_option_indices,
                   selected_option_indices, settingVars, d2_press_time>>

D2Pressed(now) ==
    /\ KeyGuard
    /\ d2_press_time' = now
    /\ Commit(Machine)
    /\ KeyEvent("D2", "pressed", "none", now)
    /\ UNCHANGED <<current_menu_index, current_option_indices,
                   selected_option_indices, settingVars>>

\* Mutant: a hold of exactly the threshold still cycles.
d2_release_action_StrictlyLonger(press_time, now) ==
    IF press_time = NoTime THEN "cycle_menu"
    ELSE IF now - press_time > D2_SELECT_HOLD_SECONDS THEN "handle_selection"
    ELSE "cycle_menu"

\* Lines 604-612: what a D2 release runs.
d2_release_action(press_time, now) ==
    IF press_time = NoTime THEN "cycle_menu"
    ELSE IF now - press_time >= D2_SELECT_HOLD_SECONDS THEN "handle_selection"
    ELSE "cycle_menu"

D2ReleasedAt(now) ==
    /\ KeyGuard
    /\ d2_press_time' = NoTime
    /\ IF d2_release_action(d2_press_time, now) = "handle_selection"
       THEN handle_selection
       ELSE cycle_menu
    /\ KeyEvent("D2", "released", d2_release_action(d2_press_time, now), now)

D2Released(held) ==
    D2ReleasedAt(IF d2_press_time = NoTime THEN held ELSE d2_press_time + held)

NextMenu ==
    \/ D0Pressed
    \/ D1Pressed
    \/ \E name \in {"D0", "D1"} : D0D1Released(name)
    \/ \E now \in PressTimes : D2Pressed(now)
    \/ \E held \in HeldTimes : D2Released(held)
    \/ MainLoopIdle

SpecMenu == Init /\ [][NextMenu]_vars

----------------------------------------------------------------------------
(* SpecEyes: the main loop with both of its inputs, command lines from the  *)
(* serial port and key events, in any order.  The lines are the nine-point  *)
(* keys and SAC lines with angles in range, on the bounds and past them on  *)
(* either side, and with held axes.                                         *)

EyeLines ==
    NinePointLines \cup
    { SacLine(SAC, <<"+","4","6">>, <<"X">>, <<"S","k","i","p">>, <<"N","C">>),
      SacLine(<<"s","a","c","c","a","d","e">>, <<"4","5",".">>, <<".","0">>,
              <<"-","9","0">>, <<"n","c">>),
      SacLine(<<"S","a","c">>, <<"k","e","e","p">>, <<"h","o","l","d">>,
              <<"-","4","5">>, <<"0","7">>),
      SacLine(SAC, <<"H">>, <<"h">>, <<"K","E","E","P">>, <<"s","k","i","p">>) }

\* Most key events of a behaviour of SpecEyes.
MaxKeys == 5

\* D2 is released without a recorded press: the loop runs cycle_menu.
NextEyes ==
    \/ \E text \in EyeLines : SerialCommand(text)
    \/ events < MaxKeys /\ D0Pressed
    \/ events < MaxKeys /\ D1Pressed
    \/ events < MaxKeys /\ D2Released(0)
    \/ MainLoopIdle

SpecEyes == Init /\ [][NextEyes]_vars

----------------------------------------------------------------------------
(* SpecEcho: the SAC command with angles of two decimals, which the tokens  *)
(* of the other specifications do not have.  In this specification angles,  *)
(* eye_angles included, are in hundredths of a degree; the angles printed   *)
(* by the "CMD OK SAC" line, which have one decimal, are in tenths.         *)

Hundredths(tenths) == tenths * 10

\* clamp_degrees on hundredths of a degree.
clamp_hundredths(value) ==
    Max(0 - Hundredths(Deg(SERVO_RANGE_DEGREES)),
        Min(Hundredths(Deg(SERVO_RANGE_DEGREES)), value))

\* Mutant: the second decimal is cut off.
format_tenths_Truncates(value) ==
    IF value >= 0 THEN value \div 10 ELSE 0 - ((0 - value) \div 10)

\* f"{value:.1f}": the nearest number of one decimal.  A value halfway
\* between two of them goes by its binary neighbour; none is offered.
format_tenths(value) ==
    IF value >= 0 THEN (value + 5) \div 10 ELSE 0 - ((5 - value) \div 10)

\* The four axes in the order of the SAC arguments.
SacAxes == << <<"L", "pan">>, <<"L", "tilt">>, <<"R", "pan">>, <<"R", "tilt">> >>

\* The first axis command of a run that raises, past the last when none does.
RaisedAt(env) ==
    IF \E i \in 1..AxisCount : env[i] = "raise"
    THEN CHOOSE i \in 1..AxisCount :
             env[i] = "raise" /\ \A j \in 1..(i - 1) : env[j] # "raise"
    ELSE AxisCount + 1

\* eye_angles after perform_saccade: an eye's axes are stored after both of
\* its commands have returned, each axis if its own command succeeded.
StoredAfter(stored, applied, env) ==
    [eye \in Eyes |-> [axis \in Axes |->
        LET i == CHOOSE k \in 1..AxisCount : SacAxes[k] = <<eye, axis>>
            last == IF eye = "L" THEN 2 ELSE AxisCount
        IN  IF RaisedAt(env) > last /\ env[i] = "ok"
            THEN clamp_hundredths(applied[i])
            ELSE stored[eye][axis]]]

\* What ensure_servo_controller prints in the axis commands of a run: a
\* failure for each command that finds no controller, and one success.
ConnectLines(env) ==
    IF servo_controller # "None" THEN <<>>
    ELSE LET n == Min(RaisedAt(env), AxisCount)
             first == IF \E i \in 1..n : env[i] # "noctl"
                      THEN CHOOSE i \in 1..n :
                               env[i] # "noctl" /\ \A j \in 1..(i - 1) : env[j] = "noctl"
                      ELSE n
         IN  [i \in 1..first |->
                 IF env[i] = "noctl"
                 THEN Line("Servo controller connection failed", <<>>)
                 ELSE Line("Servo controller ready", <<>>)]

\* Lines 363-369: what the SAC branch prints after perform_saccade.
SacResponse(applied, env) ==
    IF RaisedAt(env) <= AxisCount THEN <<>>
    ELSE IF \A i \in 1..AxisCount : env[i] = "ok"
    THEN <<Line("CMD OK SAC", [i \in 1..AxisCount |-> format_tenths(applied[i])])>>
    ELSE <<Line("CMD ERR SAC move failed", <<>>)>>

\* Angles of the left pan axis: in range, within a twentieth of a degree of
\* either bound on both sides, and far outside.
FinePans ==
    { None, Num(1000), Num(1004), Num(4496), Num(4504), Num(4600),
      Num(0 - 4504), Num(0 - 9000) }

FineArgs ==
    { <<lp, lt, rp, rt>> :
        lp \in FinePans, lt \in {None, Num(0 - 256)},
        rp \in {None, Num(4504)}, rt \in {None, Num(700)} }

\* A SAC line whose four tokens have parsed to args.
SacFine(args, env) ==
    /\ ~crashed
    /\ Quiet
    /\ serial_connected
    /\ LET applied == [i \in 1..AxisCount |->
                          saccade_value(Machine, args[i],
                                        SacAxes[i][1], SacAxes[i][2])]
       IN  /\ eye_angles' = StoredAfter(eye_angles, applied, env)
           /\ out' = ConnectLines(env) \o SacResponse(applied, env)
    /\ crashed' = (RaisedAt(env) <= AxisCount)
    /\ servo_controller' =
           IF \E i \in 1..AxisCount : i <= RaisedAt(env) /\ env[i] # "noctl"
           THEN "PCA9685" ELSE servo_controller
    /\ servo_status' =
           IF \E i \in 1..AxisCount : i <= RaisedAt(env) /\ env[i] # "noctl"
           THEN "Controller connected" ELSE servo_status
    /\ attempts' = <<>>
    /\ dispatched' = <<>>
    /\ last_call' = <<"perform_saccade", args>>
    /\ UNCHANGED <<settingVars, serialVars, menuVars, hostVars>>

NextEcho ==
    \/ \E args \in FineArgs : \E env \in Envs : SacFine(args, env)
    \/ MainLoopIdle

SpecEcho == Init /\ [][NextEcho]_vars

----------------------------------------------------------------------------
(* The host tool, saccade.py: the methods of SaccadeController.  A method   *)
(* returns what it logs and answers; the calls it makes on the device are   *)
(* kept in order.  A device call that raises PhidgetException is chosen by  *)
(* its position in that order (fail_at, 0 when none raises).                *)

\* One call on self.servo.  configure_servo (lines 82-86) is kept as one
\* call, the read of the four limits (lines 207-210) as one call.
Call(op, channel, value) == [op |-> op, channel |-> channel, value |-> value]

\* What a method prints on stderr: which axis broke which bound, or why
\* else it gave up.
HostError(axis, bound, position, limit) ==
    [axis |-> axis, bound |-> bound, position |-> position, limit |-> limit]

HostResult(calls, returned, errors) ==
    [calls |-> calls, returned |-> returned, errors |-> errors]

\* The calls made before the one that raises.
Performed(calls, fail_at) ==
    IF fail_at \in 1..Len(calls) THEN SubSeq(calls, 1, fail_at - 1) ELSE calls

Raised(calls, fail_at) == fail_at \in 1..Len(calls)

\* Mutant: a failed read of the limits falls back on the full servo range.
get_position_limits_FullRange(limits_ok) ==
    IF limits_ok THEN phidget.limits ELSE <<0, Deg(180), 0, Deg(180)>>

\* get_position_limits: the four limits, or None (here <<>>) when a read
\* raises.
get_position_limits(limits_ok) == IF limits_ok THEN phidget.limits ELSE <<>>

\* Mutant: the pan target of the check is taken with the opposite sign.
check_position_valid_PanSignFlipped(x, y, limits) ==
    IF limits = <<>>
    THEN [valid |-> FALSE, errors |-> <<HostError("none", "unreadable", 0, 0)>>]
    ELSE LET pan_target == pan_zero + x
             tilt_target == tilt_zero - y
             pan_errors ==
                 IF pan_target < limits[1]
                 THEN <<HostError("Pan", "minimum", pan_target, limits[1])>>
                 ELSE IF pan_target > limits[2]
                 THEN <<HostError("Pan", "maximum", pan_target, limits[2])>>
                 ELSE <<>>
             tilt_errors ==
                 IF tilt_target < limits[3]
                 THEN <<HostError("Tilt", "minimum", tilt_target, limits[3])>>
                 ELSE IF tilt_target > limits[4]
                 THEN <<HostError("Tilt", "maximum", tilt_target, limits[4])>>
                 ELSE <<>>
         IN  [valid |-> pan_errors \o tilt_errors = <<>>,
              errors |-> pan_errors \o tilt_errors]

\* check_position_valid(x, y), given what get_position_limits returned.
check_position_valid(x, y, limits) ==
    IF limits = <<>>
    THEN [valid |-> FALSE, errors |-> <<HostError("none", "unreadable", 0, 0)>>]
    ELSE LET pan_target == pan_zero - x
             tilt_target == tilt_zero - y
             pan_errors ==
                 IF pan_target < limits[1]
                 THEN <<HostError("Pan", "minimum", pan_target, limits[1])>>
                 ELSE IF pan_target > limits[2]
                 THEN <<HostError("Pan", "maximum", pan_target, limits[2])>>
                 ELSE <<>>
             tilt_errors ==
                 IF tilt_target < limits[3]
                 THEN <<HostError("Tilt", "minimum", tilt_target, limits[3])>>
                 ELSE IF tilt_target > limits[4]
                 THEN <<HostError("Tilt", "maximum", tilt_target, limits[4])>>
                 ELSE <<>>
         IN  [valid |-> pan_errors \o tilt_errors = <<>>,
              errors |-> pan_errors \o tilt_errors]

\* Lines 165-170 and 387-392: configure both channels, engage both.
PrepareCalls ==
    <<Call("configure", PAN_CHANNEL, 0), Call("configure", TILT_CHANNEL, 0),
      Call("setEngaged", PAN_CHANNEL, 1), Call("setEngaged", TILT_CHANNEL, 1)>>

\* Lines 156-157 with 173-174: the absolute targets of saccade and the two
\* setPosition calls that carry them.
SaccadePositionCalls(x, y) ==
    <<Call("setPosition", PAN_CHANNEL, pan_zero - x),
      Call("setPosition", TILT_CHANNEL, tilt_zero - y)>>

\* Mutant: only the pan axis is commanded.
ProfilePositionCalls_PanOnly(x, y) ==
    <<Call("setPosition", PAN_CHANNEL, pan_zero - x)>>

\* What the commanding thread does with the sampling thread of a run and
\* with its profile, entered in the log of the call beside the device calls:
\* "start" (line 400), "join" (line 410, when it returns; the value says
\* whether by timeout) and "_analyze_profile" (line 416).
ThreadCall(op, run, value) == Call(op, run, value)

\* Lines 377-378 with 406-407: the same in saccade_with_profile.
ProfilePositionCalls(x, y) ==
    <<Call("setPosition", PAN_CHANNEL, pan_zero - x),
      Call("setPosition", TILT_CHANNEL, tilt_zero - y)>>

\* The read of the limits, when one is made; its value says whether the
\* device answered (1) or the read raised (0).
LimitCalls(check_limits, limits_ok) ==
    IF check_limits
    THEN <<Call("getPositionLimits", 0, IF limits_ok THEN 1 ELSE 0)>>
    ELSE <<>>

\* Mutant: the move is made whether or not the device is connected.
saccade_Unconnected(x, y, check_limits, limits_ok, fail_at) ==
    IF check_limits
       /\ ~check_position_valid(x, y, get_position_limits(limits_ok)).valid
    THEN HostResult(LimitCalls(check_limits, limits_ok), "False",
                    check_position_valid(x, y, get_position_limits(limits_ok)).errors)
    ELSE IF Raised(PrepareCalls \o SaccadePositionCalls(x, y), fail_at)
    THEN HostResult(LimitCalls(check_limits, limits_ok) \o
                        Performed(PrepareCalls \o SaccadePositionCalls(x, y), fail_at),
                    "False", <<HostError("none", "device error", 0, 0)>>)
    ELSE HostResult(LimitCalls(check_limits, limits_ok) \o PrepareCalls \o
                        SaccadePositionCalls(x, y),
                    "True", <<>>)

\* saccade(x, y, check_limits)
saccade(x, y, check_limits, limits_ok, fail_at) ==
    IF ~connected
    THEN HostResult(<<>>, "False", <<HostError("none", "not connected", 0, 0)>>)
    ELSE IF check_limits
            /\ ~check_position_valid(x, y, get_position_limits(limits_ok)).valid
    THEN HostResult(LimitCalls(check_limits, limits_ok), "False",
                    check_position_valid(x, y, get_position_limits(limits_ok)).errors)
    ELSE IF Raised(PrepareCalls \o SaccadePositionCalls(x, y), fail_at)
    THEN HostResult(LimitCalls(check_limits, limits_ok) \o
                        Performed(PrepareCalls \o SaccadePositionCalls(x, y), fail_at),
                    "False", <<HostError("none", "device error", 0, 0)>>)
    ELSE HostResult(LimitCalls(check_limits, limits_ok) \o PrepareCalls \o
                        SaccadePositionCalls(x, y),
                    "True", <<>>)

\* Where the device has been told to go once the calls are made.
CommandedAfter(calls, commanded) ==
    [ch \in 1..2 |->
        IF \E i \in 1..Len(calls) :
               calls[i].op = "setPosition" /\ calls[i].channel = ch - 1
        THEN calls[CHOOSE i \in 1..Len(calls) :
                       calls[i].op = "setPosition" /\ calls[i].channel = ch - 1].value
        ELSE commanded[ch]]

\* The caller has answered a refusal for want of a connection with connect().
Reconnected == host_call.name = "connect" /\ host_call.after # <<>>

\* The history of a host command; after is the motion command that was
\* refused for want of a connection just before the connect() just before
\* this command, if there was one.
HostCall(name, x, y, check_limits, r) ==
    [name |-> name, x |-> x, y |-> y, check_limits |-> check_limits,
     calls |-> r.calls, returned |-> r.returned, errors |-> r.errors,
     timed_out |-> FALSE, grew |-> FALSE,
     after |-> IF Reconnected THEN host_call.after ELSE <<>>]

----------------------------------------------------------------------------
(* SpecHost: the commanding thread calls connect, close, saccade,           *)
(* saccade_with_profile and save_profile one after the other; every         *)
(* _profile_thread it has started runs beside it, one statement that        *)
(* touches shared state at a time; the servos move on their own.            *)

\* Most profiled runs started, and most samples a profile keeps (a longer
\* profile is cut off at this length).
MaxRuns == 2
MaxSamples == 2

\* Requested positions <<x, y>>, relative degrees in tenths: in range under
\* every DeviceLimits, in range under the first only, exactly on the pan
\* minimum, a tenth of a degree past it, past each single bound, and past
\* one bound on both axes.
Targets ==
    { <<0, 0>>, <<Deg(5), 0 - Deg(5)>>, <<Deg(10), 0>>, <<Deg(27), 0>>,
      <<Deg(27) + 1, 0>>, <<0 - Deg(30), 0>>, <<0, Deg(30)>>,
      <<0, 0 - Deg(30)>>, <<Deg(30), 0 - Deg(30)>> }

\* Requested positions of saccade(check_limits=False).
UncheckedTargets == { <<0, 0>>, <<Deg(30), 0 - Deg(30)>> }

\* Requested positions of the profiled runs.
ProfileTargets ==
    { <<0, 0>>, <<Deg(5), 0 - Deg(5)>>, <<Deg(27) + 1, 0>>,
      <<Deg(30), 0 - Deg(30)>> }

\* interactive_mode is at its prompt, the command before is over and done
\* with (or was the connect() that answers a refusal).
HostIdle ==
    /\ host_pc = "idle"
    /\ host_call.name \in {"init", "prompt"} \/ Reconnected

\* interactive_mode, line 692: back at the prompt for the next command.
HostPrompt ==
    /\ host_pc = "idle"
    /\ ~HostIdle
    /\ host_call' = HostCall("prompt", 0, 0, FALSE, HostResult(<<>>, "None", <<>>))
    /\ UNCHANGED <<connected, profiling, profile_data, phidget, host_pc, threads,
                   ctlVars>>

\* connect(): ok says whether openPhidget / waitForAttach succeed.
Connect(ok) ==
    /\ HostIdle
    /\ connected' = (connected \/ ok)
    /\ host_call' = HostCall("connect", 0, 0, FALSE,
                             HostResult(<<>>, IF ok THEN "True" ELSE "False", <<>>))
    /\ UNCHANGED <<profiling, profile_data, phidget, host_pc, threads, ctlVars>>

\* close(): ok says whether closePhidget succeeds.
Close(ok) ==
    /\ HostIdle
    /\ connected' = (connected /\ ~ok)
    /\ host_call' = HostCall("close", 0, 0, FALSE, HostResult(<<>>, "None", <<>>))
    /\ UNCHANGED <<profiling, profile_data, phidget, host_pc, threads, ctlVars>>

SaccadeWith(r, x, y, check_limits) ==
    /\ phidget' = [phidget EXCEPT !.commanded = CommandedAfter(r.calls, @)]
    /\ host_call' = HostCall("saccade", x, y, check_limits, r)

Saccade(x, y, check_limits, limits_ok, fail_at) ==
    /\ HostIdle
    /\ SaccadeWith(saccade(x, y, check_limits, limits_ok, fail_at),
                   x, y, check_limits)
    /\ UNCHANGED <<connected, profiling, profile_data, host_pc, threads, ctlVars>>

\* Mutant: the profile is cleared before the request is checked.
ProfileBegin_ClearsFirst(x, y, limits_ok, fail_at) ==
    /\ HostIdle
    /\ IF ~connected
       THEN /\ host_call' = HostCall("saccade_with_profile", x, y, TRUE,
                    HostResult(<<>>, "False",
                               <<HostError("none", "not connected", 0, 0)>>))
            /\ profile_data' = <<>>
            /\ UNCHANGED <<profiling, host_pc, threads>>
       ELSE IF ~check_position_valid(x, y, get_position_limits(limits_ok)).valid
       THEN /\ host_call' = HostCall("saccade_with_profile", x, y, TRUE,
                    HostResult(LimitCalls(TRUE, limits_ok), "False",
                        check_position_valid(x, y,
                            get_position_limits(limits_ok)).errors))
            /\ profile_data' = <<>>
            /\ UNCHANGED <<profiling, host_pc, threads>>
       ELSE /\ profile_data' = <<>>
            /\ IF Raised(PrepareCalls, fail_at)
               THEN /\ profiling' = FALSE
                    /\ host_call' = HostCall("saccade_with_profile", x, y, TRUE,
                            HostResult(LimitCalls(TRUE, limits_ok) \o
                                           Performed(PrepareCalls, fail_at),
                                       "False",
                                       <<HostError("none", "device error", 0, 0)>>))
                    /\ UNCHANGED <<host_pc, threads>>
               ELSE /\ Len(threads) < MaxRuns
                    /\ profiling' = TRUE
                    /\ threads' = Append(threads, [pc |-> "check", x |-> x, y |-> y])
                    /\ host_pc' = "started"
                    /\ host_call' = HostCall("saccade_with_profile", x, y, TRUE,
                            HostResult(LimitCalls(TRUE, limits_ok) \o PrepareCalls \o
                                           <<ThreadCall("start", Len(threads) + 1, 0)>>,
                                       "pending", <<>>))
    /\ UNCHANGED <<connected, phidget, ctlVars>>

\* saccade_with_profile, lines 362-400: up to the start of the sampling
\* thread.
ProfileBegin(x, y, limits_ok, fail_at) ==
    /\ HostIdle
    /\ IF ~connected
       THEN /\ host_call' = HostCall("saccade_with_profile", x, y, TRUE,
                    HostResult(<<>>, "False",
                               <<HostError("none", "not connected", 0, 0)>>))
            /\ UNCHANGED <<profiling, profile_data, host_pc, threads>>
       ELSE IF ~check_position_valid(x, y, get_position_limits(limits_ok)).valid
       THEN /\ host_call' = HostCall("saccade_with_profile", x, y, TRUE,
                    HostResult(LimitCalls(TRUE, limits_ok), "False",
                        check_position_valid(x, y,
                            get_position_limits(limits_ok)).errors))
            /\ UNCHANGED <<profiling, profile_data, host_pc, threads>>
       ELSE /\ profile_data' = <<>>
            /\ IF Raised(PrepareCalls, fail_at)
               THEN /\ profiling' = FALSE
                    /\ host_call' = HostCall("saccade_with_profile", x, y, TRUE,
                            HostResult(LimitCalls(TRUE, limits_ok) \o
                                           Performed(PrepareCalls, fail_at),
                                       "False",
                                       <<HostError("none", "device error", 0, 0)>>))
                    /\ UNCHANGED <<host_pc, threads>>
               ELSE /\ Len(threads) < MaxRuns
                    /\ profiling' = TRUE
                    /\ threads' = Append(threads, [pc |-> "check", x |-> x, y |-> y])
                    /\ host_pc' = "started"
                    /\ host_call' = HostCall("saccade_with_profile", x, y, TRUE,
                            HostResult(LimitCalls(TRUE, limits_ok) \o PrepareCalls \o
                                           <<ThreadCall("start", Len(threads) + 1, 0)>>,
                                       "pending", <<>>))
    /\ UNCHANGED <<connected, phidget, ctlVars>>

\* Lines 403-407: the two setPosition calls.
ProfileMove(fail_at) ==
    /\ host_pc = "started"
    /\ phidget' = [phidget EXCEPT !.commanded =
           CommandedAfter(Performed(ProfilePositionCalls(host_call.x, host_call.y),
                                    fail_at), @)]
    /\ IF Raised(ProfilePositionCalls(host_call.x, host_call.y), fail_at)
       THEN /\ profiling' = FALSE
            /\ host_pc' = "idle"
            /\ host_call' = [host_call EXCEPT
                   !.calls = @ \o Performed(
                       ProfilePositionCalls(host_call.x, host_call.y), fail_at),
                   !.returned = "False",
                   !.errors = <<HostError("none", "device error", 0, 0)>>]
       ELSE /\ UNCHANGED profiling
            /\ host_pc' = "joining"
            /\ host_call' = [host_call EXCEPT
                   !.calls = @ \o ProfilePositionCalls(host_call.x, host_call.y)]
    /\ UNCHANGED <<connected, profile_data, threads, ctlVars>>

\* Mutant: a join whose time is up makes the call fail.
ProfileJoin_TimeoutFails ==
    /\ host_pc = "joining"
    /\ profiling' = FALSE
    /\ host_pc' = IF threads[Len(threads)].pc # "done" THEN "idle" ELSE "analyzing"
    /\ host_call' = [host_call EXCEPT
           !.timed_out = threads[Len(threads)].pc # "done",
           !.returned = IF threads[Len(threads)].pc # "done"
                        THEN "False" ELSE @,
           !.calls = Append(@, ThreadCall("join", Len(threads),
                   IF threads[Len(threads)].pc # "done" THEN 1 ELSE 0))]
    /\ UNCHANGED <<connected, profile_data, phidget, threads, ctlVars>>

\* Lines 410-413: join(timeout=10.0) returns, because the run's thread has
\* ended or because the time is up; the flag is cleared and the profile is
\* read for the first time.
ProfileJoin ==
    /\ host_pc = "joining"
    /\ profiling' = FALSE
    /\ host_pc' = "analyzing"
    /\ host_call' = [host_call EXCEPT
           !.timed_out = threads[Len(threads)].pc # "done",
           !.calls = Append(@, ThreadCall("join", Len(threads),
                   IF threads[Len(threads)].pc # "done" THEN 1 ELSE 0))]
    /\ UNCHANGED <<connected, profile_data, phidget, threads, ctlVars>>

\* Lines 416-418: _analyze_profile has read the profile and printed
\* printed; return True.
ProfileReturnWith(printed) ==
    /\ host_pc = "analyzing"
    /\ host_pc' = "idle"
    /\ host_call' = [host_call EXCEPT
           !.returned = "True",
           !.calls = Append(@, ThreadCall("_analyze_profile", Len(threads),
                                          printed))]
    /\ UNCHANGED <<connected, profiling, profile_data, phidget, threads, ctlVars>>

\* The same where what is printed does not matter.
ProfileReturn == ProfileReturnWith(0)

\* save_profile, lines 583-587: nothing to save, or the rows start to be
\* written.
SaveBegin ==
    /\ HostIdle
    /\ host_pc' = IF profile_data = <<>> THEN "idle" ELSE "saving"
    /\ host_call' = HostCall("save_profile", 0, 0, FALSE,
           HostResult(<<>>, IF profile_data = <<>> THEN "None" ELSE "pending",
                      <<>>))
    /\ UNCHANGED <<connected, profiling, profile_data, phidget, threads, ctlVars>>

\* save_profile, lines 592-600: the rows are written.
SaveEnd ==
    /\ host_pc = "saving"
    /\ host_pc' = "idle"
    /\ host_call' = [host_call EXCEPT !.returned = "saved"]
    /\ UNCHANGED <<connected, profiling, profile_data, phidget, threads, ctlVars>>

position_tolerance == 5

\* Mutant: the position is compared with the relative target.
reached_target_Relative(t, position) ==
    /\ Abs(position[1] - t.x) < position_tolerance
    /\ Abs(position[2] - t.y) < position_tolerance

\* Lines 332-335: both axes are within the tolerance of the thread's target.
reached_target(t, position) ==
    /\ Abs(position[1] - (pan_zero - t.x)) < position_tolerance
    /\ Abs(position[2] - (tilt_zero - t.y)) < position_tolerance

\* Line 294: the thread of run r tests self.profiling.
ThreadCheck(r) ==
    /\ r \in 1..Len(threads)
    /\ threads[r].pc = "check"
    /\ threads' = [threads EXCEPT ![r].pc = IF profiling THEN "sample" ELSE "exit"]
    /\ UNCHANGED <<connected, profiling, profile_data, phidget, host_pc,
                   host_call, ctlVars>>

\* Lines 295-343: one pass of the loop body.  The positions are read (or the
\* read raises), the sample is appended to whatever list self.profile_data
\* names now, and the thread leaves the loop or sleeps until its next test.
ThreadSample(r, read_ok) ==
    /\ r \in 1..Len(threads)
    /\ threads[r].pc = "sample"
    /\ IF read_ok
       THEN /\ profile_data' =
                   IF Len(profile_data) < MaxSamples
                   THEN Append(profile_data,
                               [run |-> r, pan_abs |-> phidget.position[1],
                                tilt_abs |-> phidget.position[2]])
                   ELSE profile_data
            /\ host_call' = [host_call EXCEPT
                   !.grew = @ \/ host_pc \in {"analyzing", "saving"}]
            /\ threads' = [threads EXCEPT ![r].pc =
                   IF reached_target(threads[r], phidget.position)
                   THEN "exit" ELSE "check"]
       ELSE /\ threads' = [threads EXCEPT ![r].pc = "exit"]
            /\ UNCHANGED <<profile_data, host_call>>
    /\ UNCHANGED <<connected, profiling, phidget, host_pc, ctlVars>>

\* Line 345: self.profiling = False, and the thread ends.
ThreadExit(r) ==
    /\ r \in 1..Len(threads)
    /\ threads[r].pc = "exit"
    /\ profiling' = FALSE
    /\ threads' = [threads EXCEPT ![r] = [pc |-> "done", x |-> 0, y |-> 0]]
    /\ UNCHANGED <<connected, profile_data, phidget, host_pc, host_call, ctlVars>>

\* The servos move: they come to rest short of the commanded pan position by
\* off tenths of a degree (0: on it).
ServoOffsets == {0, position_tolerance - 1, position_tolerance}

DeviceMove(off) ==
    /\ phidget.position # <<phidget.commanded[1] + off, phidget.commanded[2]>>
    /\ phidget' = [phidget EXCEPT
           !.position = <<phidget.commanded[1] + off, phidget.commanded[2]>>]
    /\ UNCHANGED <<connected, profiling, profile_data, host_pc, threads,
                   host_call, ctlVars>>

\* The host tool just constructed, with a device of either kind; the
\* embedded controller stands by, its serial link closed.
InitHost ==
    /\ eye_selection_index = IndexOf(EYE_OPTIONS, "B")
    /\ point_distance_index = IndexOf(POINT_DISTANCE_OPTIONS, 10)
    /\ InitRest
    /\ ~serial_connected
    /\ \E i \in 1..Len(DeviceLimits) : HostInit(DeviceLimits[i])

\* The sampling threads of run r and of every run before it have ended.
ThreadsDone ==
    \A r \in 1..Len(threads) : threads[r].pc = "done"

\* No sampling thread is left and the servos stand where they were sent.
AtRest == ThreadsDone /\ phidget.position = phidget.commanded

\* The steps of a profiled run after its start, and of its thread.
ProfileRun ==
    \/ \E fail_at \in 0..2 : ProfileMove(fail_at)
    \/ ProfileJoin
    \/ ProfileReturn
    \/ \E r \in 1..MaxRuns : ThreadCheck(r)
    \/ \E r \in 1..MaxRuns, read_ok \in BOOLEAN : ThreadSample(r, read_ok)
    \/ \E r \in 1..MaxRuns : ThreadExit(r)

\* SpecHost: one command after the other, each given when the run before it
\* is over.
NextHost ==
    \/ \E ok \in BOOLEAN : AtRest /\ Connect(ok)
    \/ \E ok \in BOOLEAN : AtRest /\ Close(ok)
    \/ \E t \in Targets, limits_ok \in BOOLEAN, fail_at \in 0..6 :
           AtRest /\ Saccade(t[1], t[2], TRUE, limits_ok, fail_at)
    \/ \E t \in UncheckedTargets, fail_at \in 0..6 :
           AtRest /\ Saccade(t[1], t[2], FALSE, TRUE, fail_at)
    \/ \E t \in ProfileTargets, limits_ok \in BOOLEAN, fail_at \in 0..4 :
           AtRest /\ ProfileBegin(t[1], t[2], limits_ok, fail_at)
    \/ ProfileRun
    \/ HostPrompt
    \/ DeviceMove(0)

SpecHost == InitHost /\ [][NextHost]_vars

\* SpecKeep: the commands of SpecHost and save_profile, each given when the
\* run before it is over.
NextKeep ==
    \/ NextHost
    \/ AtRest /\ SaveBegin
    \/ SaveEnd

SpecKeep == InitHost /\ [][NextKeep]_vars

\* SpecProfile: profiled runs and saves in any order, a new command as soon
\* as the one before has returned, whatever the sampling threads and the
\* servos are doing.
NextProfile ==
    \/ \E ok \in BOOLEAN : Connect(ok)
    \/ \E t \in ProfileTargets, limits_ok \in BOOLEAN, fail_at \in 0..4 :
           ProfileBegin(t[1], t[2], limits_ok, fail_at)
    \/ ProfileRun
    \/ SaveBegin
    \/ SaveEnd
    \/ HostPrompt
    \/ \E off \in ServoOffsets : DeviceMove(off)

\* The host tool just constructed, with a device of the first kind.
InitProfile == Init /\ ~serial_connected

SpecProfile == InitProfile /\ [][NextProfile]_vars

----------------------------------------------------------------------------
(* SpecRerun: profiled runs without end.  The model keeps the records of at *)
(* most MaxRuns threads: a further run is started when the thread of the    *)
(* last run has ended, and its thread takes that record.  Every thread that *)
(* can take a step does so in the end (the scheduler runs it, its sleeps    *)
(* end, the position reads return), and so does the commanding thread       *)
(* inside saccade_with_profile: the device calls return and the join has a  *)
(* timeout.                                                                 *)

RerunTargets == { <<0, 0>>, <<Deg(5), 0 - Deg(5)>> }

\* saccade_with_profile, lines 362-400, on the path that starts a thread.
ProfileRestart(x, y) ==
    /\ HostIdle
    /\ connected
    /\ check_position_valid(x, y, get_position_limits(TRUE)).valid
    /\ Len(threads) = MaxRuns
    /\ threads[MaxRuns].pc = "done"
    /\ profile_data' = <<>>
    /\ profiling' = TRUE
    /\ threads' = [threads EXCEPT ![MaxRuns] = [pc |-> "check", x |-> x, y |-> y]]
    /\ host_pc' = "started"
    /\ host_call' = HostCall("saccade_with_profile", x, y, TRUE,
                             HostResult(LimitCalls(TRUE, TRUE) \o PrepareCalls \o
                                            <<ThreadCall("start", MaxRuns, 0)>>,
                                        "pending", <<>>))
    /\ UNCHANGED <<connected, phidget, ctlVars>>

NextRerun ==
    \/ Connect(TRUE)
    \/ \E t \in RerunTargets, fail_at \in {0, 3} :
           ProfileBegin(t[1], t[2], TRUE, fail_at)
    \/ \E t \in RerunTargets : ProfileRestart(t[1], t[2])
    \/ ProfileRun
    \/ HostPrompt
    \/ \E off \in {0, position_tolerance} : DeviceMove(off)

RerunFairness ==
    /\ \A r \in 1..MaxRuns :
           /\ WF_vars(ThreadCheck(r))
           /\ WF_vars(\E read_ok \in BOOLEAN : ThreadSample(r, read_ok))
           /\ WF_vars(ThreadExit(r))
    /\ WF_vars(\E fail_at \in 0..2 : ProfileMove(fail_at))
    /\ WF_vars(ProfileJoin)
    /\ WF_vars(ProfileReturn)

SpecRerun == InitProfile /\ [][NextRerun]_vars /\ RerunFairness

\* The same with the runs limited to MaxRuns (no record is taken over).
NextRuns ==
    \/ Connect(TRUE)
    \/ \E t \in RerunTargets, fail_at \in {0, 3} :
           ProfileBegin(t[1], t[2], TRUE, fail_at)
    \/ ProfileRun
    \/ HostPrompt
    \/ \E off \in {0, position_tolerance} : DeviceMove(off)

SpecRuns == InitProfile /\ [][NextRuns]_vars /\ RerunFairness

----------------------------------------------------------------------------
(* SpecConn: motion commands given to either program while its actuator is  *)
(* not connected, and given again once it is.  The controller looks for its *)
(* PCA9685 inside every set_servo_pulse; the host tool connects to its      *)
(* Phidget when connect() is called.  The two programs share no state, so a *)
(* behaviour of the pair is an interleaving of one behaviour of each; the   *)
(* specification runs the host tool first and the controller after it, from *)
(* the host tool as constructed or as a retried saccade has left it.        *)

ConnLines ==
    { <<"u","r">>, <<"C">>,
      SacLine(SAC, <<"1","0">>, <<"X">>, <<"5">>, <<"N","C">>),
      SacLine(SAC, <<"1","0">>, <<"-","2",".","5">>, <<"5">>, <<"7">>),
      SacLine(SAC, <<"H">>, <<"h">>, <<"K","E","E","P">>, <<"s","k","i","p">>) }

ConnTargets == { <<0, 0>>, <<Deg(5), 0 - Deg(5)>>, <<Deg(27) + 1, 0>> }

\* No axis command of the last line found the controller.
RefusedLine ==
    /\ last_call[1] \in {"handle_serial_command", "retry"}
    /\ attempts # <<>>
    /\ \A i \in 1..Len(attempts) : attempts[i].result = "noctl"

\* The sender gives the refused line once more.
SerialRetry ==
    /\ ~crashed
    /\ serial_connected
    /\ RefusedLine
    /\ \E env \in Envs : Commit(handle_serial_command(Machine, last_call[2], env))
    /\ dispatched' = <<last_call[2]>>
    /\ last_call' = <<"retry", last_call[2]>>
    /\ UNCHANGED <<settingVars, serialVars, menuVars, hostVars>>

NotConnectedError == HostError("none", "not connected", 0, 0)

\* The last host command was a motion command refused for want of a
\* connection.
RefusedCall ==
    /\ host_pc = "idle"
    /\ host_call.name \in {"saccade", "saccade_with_profile"}
    /\ host_call.errors = <<NotConnectedError>>

\* The caller answers the refusal with connect().
Reconnect(ok) ==
    /\ RefusedCall
    /\ connected' = (connected \/ ok)
    /\ host_call' =
           [name |-> "connect", x |-> 0, y |-> 0, check_limits |-> FALSE,
            calls |-> <<>>, returned |-> IF ok THEN "True" ELSE "False",
            errors |-> <<>>, timed_out |-> FALSE, grew |-> FALSE,
            after |-> <<host_call.name, host_call.x, host_call.y,
                        host_call.check_limits>>]
    /\ UNCHANGED <<profiling, profile_data, phidget, host_pc, threads, ctlVars>>

ControllerUntouched == last_call = <<"init">>

\* The host tool has not been used, or has just made the saccade it was
\* refused before connect().
HostUntouched ==
    \/ host_call.name = "init"
    \/ /\ host_call.after # <<>>
       /\ host_call.name = "saccade"
       /\ host_call.returned = "True"

NextConn ==
    \/ \E text \in ConnLines : HostUntouched /\ SerialCommand(text)
    \/ HostUntouched /\ SerialRetry
    \/ HostUntouched /\ MainLoopIdle
    \/ \E ok \in BOOLEAN : ControllerUntouched /\ AtRest /\ Connect(ok)
    \/ \E ok \in BOOLEAN : ControllerUntouched /\ Reconnect(ok)
    \/ \E t \in ConnTargets, check_limits \in BOOLEAN, limits_ok \in BOOLEAN,
          fail_at \in {0, 2, 6} :
           /\ ControllerUntouched /\ AtRest
           /\ check_limits \/ limits_ok
           /\ Saccade(t[1], t[2], check_limits, limits_ok, fail_at)
    \/ \E t \in ConnTargets, limits_ok \in BOOLEAN, fail_at \in {0, 3} :
           ControllerUntouched /\ AtRest
               /\ ProfileBegin(t[1], t[2], limits_ok, fail_at)
    \/ ControllerUntouched /\ ProfileRun
    \/ ControllerUntouched /\ HostPrompt
    \/ ControllerUntouched /\ DeviceMove(0)

SpecConn == Init /\ [][NextConn]_vars

----------------------------------------------------------------------------
(* Python floats.  The positions of saccade.py are IEEE 754 doubles; where  *)
(* the rounding of a subtraction matters a double is kept exactly, as a     *)
(* sign and a magnitude in binary fixed point: IntBits bits before the      *)
(* point and FracBits after it, most significant first.  Every double met   *)
(* here (magnitude below 2^IntBits, and 0 or at least 1/16) has all its     *)
(* bits on that grid.                                                       *)

IntBits == 8
FracBits == 60

\* 52 stored bits and the implicit leading one.
MantissaBits == 52 + 1

GridBits == IntBits + FracBits

RECURSIVE Pow2(_)
Pow2(n) == IF n = 0 THEN 1 ELSE 2 * Pow2(n - 1)

\* Index of the first 1, or one past the end when there is none.
Leading(bits) ==
    IF \A i \in 1..GridBits : bits[i] = 0 THEN GridBits + 1
    ELSE CHOOSE i \in 1..GridBits :
             bits[i] = 1 /\ \A j \in 1..(i - 1) : bits[j] = 0

\* a + b on magnitudes: a carry enters position i when some lower position
\* makes one and every position between passes it on.
AddBits(a, b) ==
    [i \in 1..GridBits |->
        (a[i] + b[i]
         + (IF \E j \in (i + 1)..GridBits :
                   /\ a[j] + b[j] = 2
                   /\ \A k \in (i + 1)..(j - 1) : a[k] + b[k] = 1
            THEN 1 ELSE 0)) % 2]

\* a - b on magnitudes, a not below b, with the borrows found the same way.
SubBits(a, b) ==
    [i \in 1..GridBits |->
        (a[i] - b[i] + 2
         - (IF \E j \in (i + 1)..GridBits :
                   /\ a[j] < b[j]
                   /\ \A k \in (i + 1)..(j - 1) : a[k] = b[k]
            THEN 1 ELSE 0)) % 2]

LessBits(a, b) ==
    \E i \in 1..GridBits : a[i] < b[i] /\ \A j \in 1..(i - 1) : a[j] = b[j]

\* Round to nearest, ties to even, at MantissaBits significant bits; sticky
\* says that the exact value has more below the grid.
RoundWith(bits, sticky, last) ==
    IF last >= GridBits THEN bits
    ELSE IF bits[last + 1] = 1
            /\ (sticky \/ bits[last] = 1
                \/ \E j \in (last + 2)..GridBits : bits[j] = 1)
    THEN AddBits([i \in 1..GridBits |-> IF i <= last THEN bits[i] ELSE 0],
                 [i \in 1..GridBits |-> IF i = last THEN 1 ELSE 0])
    ELSE [i \in 1..GridBits |-> IF i <= last THEN bits[i] ELSE 0]

RoundDouble(bits, sticky) ==
    RoundWith(bits, sticky, Leading(bits) + MantissaBits - 1)

\* What is left of r / 10 (r < 10) after n binary places: 2^n r mod 10.
TenthRest(r, n) ==
    IF n = 0 THEN r ELSE (r * <<2, 4, 8, 6>>[((n - 1) % 4) + 1]) % 10

\* The binary magnitude of whole + r / 10 on the grid, cut off.
TenthBits(whole, r) ==
    [i \in 1..GridBits |->
        IF i <= IntBits THEN (whole \div Pow2(IntBits - i)) % 2
        ELSE (2 * TenthRest(r, i - IntBits - 1)) \div 10]

\* float(text) for the decimal text of tenths / 10: the nearest double.
FloatOf(tenths) ==
    [neg |-> tenths < 0,
     bits |-> RoundDouble(TenthBits(Abs(tenths) \div 10, Abs(tenths) % 10),
                          TenthRest(Abs(tenths) % 10, FracBits) # 0)]

IsZeroBits(bits) == \A i \in 1..GridBits : bits[i] = 0

Signed(neg, bits) == [neg |-> neg /\ ~IsZeroBits(bits), bits |-> bits]

\* a - b on doubles: the exact difference, rounded once.
FloatSub(a, b) ==
    IF a.neg # b.neg
    THEN Signed(a.neg, RoundDouble(AddBits(a.bits, b.bits), FALSE))
    ELSE IF LessBits(a.bits, b.bits)
    THEN Signed(~a.neg, RoundDouble(SubBits(b.bits, a.bits), FALSE))
    ELSE Signed(a.neg, RoundDouble(SubBits(a.bits, b.bits), FALSE))

----------------------------------------------------------------------------
(* SpecRound: a relative angle is converted to an absolute servo position   *)
(* as saccade does, the servo comes to rest exactly there, and the position *)
(* is read back as get_current_position does.                               *)

\* The largest angle asked for, in tenths of a degree.
MaxTenths == 450

\* Lines 156-157: pan_target = self.pan_zero - x (tilt alike).
absolute_position(zero, relative) == FloatSub(zero, relative)

\* Mutant: the position is read back as position minus zero.
relative_position_Unsigned(zero, absolute) == FloatSub(absolute, zero)

\* Lines 190-191: pan_rel = self.pan_zero - pan_abs (tilt alike).
relative_position(zero, absolute) == FloatSub(zero, absolute)

\* self.pan_zero or self.tilt_zero, as a double.
ZeroOf(channel) ==
    FloatOf(IF channel = PAN_CHANNEL THEN pan_zero ELSE tilt_zero)

RoundTripWith(channel, tenths, position) ==
    host_call' =
        [name |-> "get_current_position", x |-> tenths, y |-> channel,
         check_limits |-> FALSE,
         calls |-> <<Call("setPosition", channel, position),
                     Call("getPosition", channel, position)>>,
         returned |-> relative_position(ZeroOf(channel), position),
         errors |-> <<>>, timed_out |-> FALSE, grew |-> FALSE, after |-> <<>>]

\* saccade to tenths / 10 degrees on one axis, then get_current_position.
RoundTrip(channel, tenths) ==
    /\ HostIdle
    /\ RoundTripWith(channel, tenths,
                     absolute_position(ZeroOf(channel), FloatOf(tenths)))
    /\ UNCHANGED <<connected, profiling, profile_data, phidget, host_pc, threads,
                   ctlVars>>

NextRound ==
    \/ \E channel \in {PAN_CHANNEL, TILT_CHANNEL},
          tenths \in (0 - MaxTenths)..MaxTenths : RoundTrip(channel, tenths)
    \/ HostPrompt

SpecRound == InitProfile /\ [][NextRound]_vars

----------------------------------------------------------------------------
(* _analyze_profile.  A sample of the profile, as far as the analysis reads *)
(* it, is [time, pan_rel, tilt_rel, pan_vel, tilt_vel]; None is Null (the  *)
(* empty tuple) and a value v that may be None is <<v>>.  Times are whole ticks and positions  *)
(* and device velocities whole units; quotients are kept exact by scaling:  *)
(* a velocity estimated from positions is in units of 1 / TimeScale, a      *)
(* smoothed velocity in units of 1 / SmoothScale of that, an acceleration   *)
(* in units of 1 / (TimeScale * SmoothScale) of that.  Python computes them *)
(* in doubles.                                                              *)

Null == <<>>

\* The steps between the times of two samples divide TimeScale.
TimeScale == 1 * 2

\* The windows of the 5-point average hold 3, 4 or 5 values.
SmoothScale == 3 * 4 * 5

\* The times of two samples with a velocity differ by 1 to 8 or by 10 ticks.
AccelScale == 3 * 5 * 7 * 8

RECURSIVE SumFrom(_, _, _)
SumFrom(data, first, last) ==
    IF first > last THEN 0 ELSE data[first] + SumFrom(data, first + 1, last)

\* Mutant: the average is taken whatever the length of the data.
smooth_data_Always(data, window) ==
    [i \in 1..Len(data) |->
        LET start == Max(0, (i - 1) - window \div 2)
            end   == Min(Len(data), (i - 1) + window \div 2 + 1)
        IN  (SumFrom(data, start + 1, end) * SmoothScale) \div (end - start)]

\* _smooth_data(data, window), in units of 1 / SmoothScale.
smooth_data(data, window) ==
    IF Len(data) < window THEN [i \in 1..Len(data) |-> data[i] * SmoothScale]
    ELSE [i \in 1..Len(data) |->
             LET start == Max(0, (i - 1) - window \div 2)
                 end   == Min(Len(data), (i - 1) + window \div 2 + 1)
             IN  (SumFrom(data, start + 1, end) * SmoothScale) \div (end - start)]

\* Lines 460-474: the velocities of the device, or, when no sample has a pan
\* velocity, those estimated from the positions of field rel.
Velocities(data, vel, rel) ==
    IF \E i \in 1..Len(data) : data[i].pan_vel # Null
    THEN [i \in 1..Len(data) |-> data[i][vel]]
    ELSE [i \in 1..Len(data) |->
             IF i = 1 \/ data[i].time - data[i - 1].time <= 0 THEN Null
             ELSE <<((data[i][rel] - data[i - 1][rel]) * TimeScale)
                        \div (data[i].time - data[i - 1].time)>>]

\* valid_indices and vels_clean.
ValidIndices(velocities) ==
    SelectSeq([i \in 1..Len(velocities) |-> i], LAMBDA i : velocities[i] # Null)

Clean(velocities) ==
    [k \in 1..Len(ValidIndices(velocities)) |->
        velocities[ValidIndices(velocities)[k]][1]]

\* Lines 490-500: the absolute accelerations between neighbouring smoothed
\* velocities whose times differ, in units of 1 / (SmoothScale * AccelScale).
RECURSIVE AccelsFrom(_, _, _, _)
AccelsFrom(smoothed, valid, times, i) ==
    IF i > Len(smoothed) THEN <<>>
    ELSE (IF times[valid[i]] - times[valid[i - 1]] > 0
          THEN <<(Abs(smoothed[i] - smoothed[i - 1]) * TimeScale * AccelScale)
                     \div (times[valid[i]] - times[valid[i - 1]])>>
          ELSE <<>>)
         \o AccelsFrom(smoothed, valid, times, i + 1)

\* sorted(values)[k], k counted from 0.
SortedAt(values, k) ==
    CHOOSE v \in {values[i] : i \in 1..Len(values)} :
        /\ Cardinality({i \in 1..Len(values) : values[i] < v}) <= k
        /\ Cardinality({i \in 1..Len(values) : values[i] <= v}) > k

\* int(n * 0.9) and int(n * 0.1).
Percent90(n) == (n * 9) \div 10
Percent10(n) == n \div 10

\* Lines 502-511, given the accelerations: the peak is an element of the
\* sorted accelerations, the average <<sum, count>> of the middle ones.
AccelStatsWith(accels, clean) ==
    [clean |-> clean,
     accels |-> accels,
     peak |-> IF accels = <<>> THEN Null
              ELSE <<SortedAt(accels, Percent90(Len(accels)))>>,
     avg |-> IF accels = <<>> \/ Percent90(Len(accels)) <= Percent10(Len(accels))
             THEN Null
             ELSE <<SumFrom(accels, Percent10(Len(accels)) + 1,
                            Percent90(Len(accels))),
                    Percent90(Len(accels)) - Percent10(Len(accels))>>]

\* Mutant: the statistics are computed from two velocities on.
AccelStats_FromTwo(velocities, times) ==
    IF Len(Clean(velocities)) > 1
    THEN AccelStatsWith(AccelsFrom(smooth_data(Clean(velocities), 5),
                                   ValidIndices(velocities), times, 2),
                        Len(Clean(velocities)))
    ELSE [clean |-> Len(Clean(velocities)), accels |-> <<>>,
          peak |-> Null, avg |-> Null]

\* Lines 484-511 (pan) and 513-534 (tilt): the statistics of one axis.
AccelStats(velocities, times) ==
    IF Len(Clean(velocities)) > 3
    THEN AccelStatsWith(AccelsFrom(smooth_data(Clean(velocities), 5),
                                   ValidIndices(velocities), times, 2),
                        Len(Clean(velocities)))
    ELSE [clean |-> Len(Clean(velocities)), accels |-> <<>>,
          peak |-> Null, avg |-> Null]

\* _analyze_profile: what it works out of the profile, Null when the profile
\* is empty.
analyze_profile(data) ==
    IF data = <<>> THEN Null
    ELSE <<[samples |-> Len(data),
            pan |-> AccelStats(Velocities(data, "pan_vel", "pan_rel"),
                               [i \in 1..Len(data) |-> data[i].time]),
            tilt |-> AccelStats(Velocities(data, "tilt_vel", "tilt_rel"),
                                [i \in 1..Len(data) |-> data[i].time])]>>

----------------------------------------------------------------------------
(* SpecStill: profiled moves to where the servos already stand, each made   *)
(* when the run before it is over; plain saccades in between take the       *)
(* servos elsewhere.  What the samples hold beside the positions (the time  *)
(* of each and the velocities, which not every device reports) is chosen    *)
(* when the profile is analysed.                                            *)

StillTargets == { <<0, 0>>, <<Deg(5), 0 - Deg(5)>>, <<0 - Deg(10), Deg(10)>> }

\* The samples as _analyze_profile reads them: step ticks apart, all with
\* the velocity vel (Null: the device reports none).
Telemetered(data, step, vel) ==
    [i \in 1..Len(data) |->
        [time |-> (i - 1) * step,
         pan_rel |-> pan_zero - data[i].pan_abs,
         tilt_rel |-> tilt_zero - data[i].tilt_abs,
         pan_vel |-> vel, tilt_vel |-> vel]]

\* Lines 416-418, with what _analyze_profile worked out.
ProfileAnalyze(step, vel) ==
    ProfileReturnWith(analyze_profile(Telemetered(profile_data, step, vel)))

StandsAt(x, y) == phidget.position = <<pan_zero - x, tilt_zero - y>>

NextStill ==
    \/ AtRest /\ Connect(TRUE)
    \/ \E t \in StillTargets, fail_at \in {0, 6} :
           AtRest /\ Saccade(t[1], t[2], TRUE, TRUE, fail_at)
    \/ \E t \in StillTargets, fail_at \in {0, 3} :
           AtRest /\ StandsAt(t[1], t[2]) /\ ProfileBegin(t[1], t[2], TRUE, fail_at)
    \/ \E fail_at \in 0..2 : ProfileMove(fail_at)
    \/ ProfileJoin
    \/ \E step \in 0..TimeScale, vel \in {Null, <<0>>, <<3>>} :
           ProfileAnalyze(step, vel)
    \/ \E r \in 1..MaxRuns : ThreadCheck(r)
    \/ \E r \in 1..MaxRuns, read_ok \in BOOLEAN : ThreadSample(r, read_ok)
    \/ \E r \in 1..MaxRuns : ThreadExit(r)
    \/ HostPrompt
    \/ DeviceMove(0)

SpecStill == InitProfile /\ [][NextStill]_vars

----------------------------------------------------------------------------
(* SpecStats: _analyze_profile applied to profiles made up for it: short    *)
(* ones with every pattern of missing velocities, with and without device   *)
(* velocities, with a pair of samples of equal time, and velocity series of *)
(* several lengths that are flat but for one spike.                         *)

\* The longest of the short profiles.
MaxProfile == 5

\* The lengths of the series with a spike, the level they are flat at, and
\* the height of the spike.
SpikeLengths == {4, 5, 6, 12, 22}
FlatVelocity == 1
SpikeVelocity == 61

\* Sequences over values of the lengths in lengths.
SeqsOf(values, lengths) ==
    UNION {[1..n -> values] : n \in lengths}

\* The time of sample i when the clock ticks once in step ticks and does not
\* advance between samples stall - 1 and stall (stall = 0: always advances).
TimeOf(i, step, stall) ==
    step * (IF stall >= 2 /\ i >= stall THEN i - 2 ELSE i - 1)

\* A profile with the device velocities vels (the tilt axis mirrors the pan
\* axis) and pan positions that rise by slope a sample.
Synthetic(vels, slope, step, stall) ==
    [i \in 1..Len(vels) |->
        [time |-> TimeOf(i, step, stall),
         pan_rel |-> slope * i * i, tilt_rel |-> 0 - slope * i,
         pan_vel |-> vels[i],
         tilt_vel |-> IF vels[i] = Null THEN Null ELSE <<0 - vels[i][1]>>]]

SpikeSeries(n, at) ==
    [i \in 1..n |-> IF i = at THEN <<SpikeVelocity>> ELSE <<FlatVelocity>>]

SyntheticProfiles ==
    { Synthetic(vels, slope, step, stall) :
        vels \in SeqsOf({Null, <<0>>, <<8>>}, 0..MaxProfile),
        slope \in {0, 2}, step \in {1, TimeScale}, stall \in {0, 3} }
    \cup
    { Synthetic(SpikeSeries(n, at), 0, 1, 0) :
        n \in SpikeLengths, at \in 1..22 }

InitStats ==
    /\ eye_selection_index = IndexOf(EYE_OPTIONS, "B")
    /\ point_distance_index = IndexOf(POINT_DISTANCE_OPTIONS, 10)
    /\ InitRest
    /\ ~serial_connected
    /\ connected = FALSE
    /\ profiling = FALSE
    /\ profile_data \in SyntheticProfiles
    /\ phidget = [limits |-> DeviceLimits[1],
                  position |-> <<pan_zero, tilt_zero>>,
                  commanded |-> <<pan_zero, tilt_zero>>]
    /\ host_pc = "idle"
    /\ threads = <<>>
    /\ host_call = [name |-> "init", x |-> 0, y |-> 0, check_limits |-> FALSE,
                    calls |-> <<>>, returned |-> "None", errors |-> <<>>,
                    timed_out |-> FALSE, grew |-> FALSE, after |-> <<>>]

\* _analyze_profile(...) on the stored profile.
AnalyzeProfile ==
    /\ HostIdle
    /\ host_call' = HostCall("_analyze_profile", 0, 0, FALSE,
           HostResult(<<ThreadCall("_analyze_profile", 0,
                                   analyze_profile(profile_data))>>,
                      "None", <<>>))
    /\ UNCHANGED <<connected, profiling, profile_data, phidget, host_pc, threads,
                   ctlVars>>

NextStats ==
    \/ AnalyzeProfile
    \/ HostPrompt

SpecStats == InitStats /\ [][NextStats]_vars

----------------------------------------------------------------------------
(* Claims *)

LastIs(name) == last_call[1] = name

\* C1: in static-limit mode set_axis_angle clamps the requested angle d into
\* [-45, +45] before computing the pulse: for d > 45 the pulse is
\* zero_pulse_us + direction*45*11, for d < -45 it is
\* zero_pulse_us - direction*45*11, for d in range it is
\* zero_pulse_us + direction*d*11, and every pulse recorded for the actuator
\* lies within 45*11 microseconds of the axis's zero pulse.
C1_ClampedPulse ==
    LastIs("set_axis_angle") =>
        LET eye   == last_call[2]
            axis  == last_call[3]
            d     == last_call[4]
            servo == SERVO_LOOKUP(eye, axis)
            zero  == Us(servo.zero_pulse_us)
            swing == Deg(45) * 11
            a     == attempts[1]
        IN  /\ Len(attempts) = 1
            /\ a.eye = eye /\ a.axis = axis /\ a.channel = servo.channel
            /\ d > Deg(45) => a.pulse = zero + servo.direction * swing
            /\ d < 0 - Deg(45) => a.pulse = zero - servo.direction * swing
            /\ (d >= 0 - Deg(45) /\ d <= Deg(45)) =>
                   a.pulse = zero + servo.direction * d * 11
            /\ a.pulse >= zero - swing /\ a.pulse <= zero + swing

\* Witness of C1: an angle below -45 was requested and the write was accepted.
C1_Witness ==
    /\ LastIs("set_axis_angle")
    /\ last_call[4] < 0 - Deg(45)
    /\ Len(attempts) = 1
    /\ attempts[1].result = "ok"

----------------------------------------------------------------------------
(* What the claims about command lines compare the handler against: the     *)
(* spellings offered above, classified by hand.                             *)

HoldSpellings ==
    { <<"x">>, <<"X">>, <<"h">>, <<"H">>, <<"h","o","l","d">>,
      <<"S","k","i","p">>, <<"s","k","i","p">>, <<"K","E","E","P">>,
      <<"k","e","e","p">>, <<"N","C">>, <<"n","c">> }

\* <<spelling, value in tenths of a degree>>
NumberSpellings ==
    { << <<"1","0">>, 100 >>,             << <<"+","4","6">>, 460 >>,
      << <<"-","2",".","5">>, -25 >>,     << <<"5">>, 50 >>,
      << <<"-","9","0">>, -900 >>,        << <<"7">>, 70 >>,
      << <<"-","4","5">>, -450 >>,        << <<"4","5",".">>, 450 >>,
      << <<".","0">>, 0 >>,               << <<"0","7">>, 70 >>,
      << <<"1","0",".","0">>, 100 >>,     << <<"-","0","2",".","5">>, -25 >>,
      << <<"+","5">>, 50 >>,              << <<"7",".">>, 70 >>,
      << <<"1">>, 10 >>, << <<"2">>, 20 >>, << <<"3">>, 30 >>, << <<"4">>, 40 >> }

InvalidSpellings ==
    { <<"a","b","c">>, <<"1","O">>, <<"-","-","5">>, <<"1",".","2",".","3">> }

IsNumber(tok) == \E p \in NumberSpellings : p[1] = tok
NumberValue(tok) == (CHOOSE p \in NumberSpellings : p[1] = tok)[2]

Within45(v) == IF v > 450 THEN 450 ELSE IF v < -450 THEN -450 ELSE v

\* The tokens of the line the step just taken handed to
\* handle_serial_command (none when it ran something else).
StepTokens ==
    IF last_call'[1] = "handle_serial_command" THEN Split(last_call'[2]) ELSE <<>>

\* The line's first token is SAC or SACCADE in any letter case.
IsSac(toks) ==
    /\ Len(toks) >= 1
    /\ Upper(toks[1]) \in { <<"S","A","C">>, <<"S","A","C","C","A","D","E">> }

ArgsOf(toks) == SubSeq(toks, 2, Len(toks))

NoMotion ==
    /\ attempts' = <<>>
    /\ crashed' = FALSE
    /\ UNCHANGED <<servoVars, settingVars, menuVars>>

\* C2 (as claimed): after a handler run, each eye axis holds the clamped
\* value of its command when that command was accepted, and its previous
\* value when the command failed or was not made.
C2_StateFollowsAxisSuccess ==
    [][ last_call'[1] = "handle_serial_command" =>
          \A eye \in Eyes, axis \in Axes :
              LET done == {i \in 1..Len(attempts') :
                               /\ attempts'[i].eye = eye
                               /\ attempts'[i].axis = axis
                               /\ attempts'[i].result = "ok"}
              IN  IF done = {}
                  THEN eye_angles'[eye][axis] = eye_angles[eye][axis]
                  ELSE \E i \in done :
                           eye_angles'[eye][axis] = attempts'[i].clamped ]_vars

\* C3 (as claimed): a pan command that fails, however it fails, is followed
\* by the tilt command of the same eye, and a failure on the left eye of a
\* two-eye request is followed by an attempt on the right eye.
C3_AxesIndependent ==
    /\ \A i \in 1..Len(attempts) :
           (attempts[i].axis = "pan" /\ attempts[i].result # "ok") =>
               \E j \in (i + 1)..Len(attempts) :
                   attempts[j].eye = attempts[i].eye /\ attempts[j].axis = "tilt"
    /\ (/\ LastIs("handle_serial_command")
        /\ get_target_eyes = EYE_KEYS
        /\ \E i \in 1..Len(attempts) :
               attempts[i].eye = "L" /\ attempts[i].result # "ok")
         => \E j \in 1..Len(attempts) : attempts[j].eye = "R"

\* C4: a SAC/SACCADE line with four tokens, each a hold sentinel in any
\* letter case or a number, commands the four axes in order, a held axis at
\* its current EyeState value and a numeric one at its number (clamped to
\* +-45 for the actuator); when all four commands are accepted the response
\* is CMD OK, every held axis keeps its EyeState value and every other axis
\* holds the clamp of its number.
C4_HoldResolved ==
    [][ LET toks == StepTokens
            args == ArgsOf(toks)
        IN
        (/\ IsSac(toks)
         /\ Len(args) = 4
         /\ \A i \in 1..4 : args[i] \in HoldSpellings \/ IsNumber(args[i]))
        =>
        LET held(i) == args[i] \in HoldSpellings
            now(i)  == eye_angles[SacAxes[i][1]][SacAxes[i][2]]
            want(i) == IF held(i) THEN now(i) ELSE NumberValue(args[i])
            n       == Len(attempts')
        IN  /\ n >= 1 /\ n <= 4
            /\ crashed' = FALSE => n = 4
            /\ \A i \in 1..n :
                   /\ attempts'[i].eye = SacAxes[i][1]
                   /\ attempts'[i].axis = SacAxes[i][2]
                   /\ attempts'[i].requested = want(i)
                   /\ attempts'[i].clamped = Within45(want(i))
            /\ (n = 4 /\ \A i \in 1..4 : attempts'[i].result = "ok") =>
                   /\ out'[Len(out')] =
                          Line("CMD OK SAC", <<want(1), want(2), want(3), want(4)>>)
                   /\ \A i \in 1..4 :
                          eye_angles'[SacAxes[i][1]][SacAxes[i][2]] =
                              IF held(i) THEN now(i)
                              ELSE Within45(NumberValue(args[i])) ]_vars

\* Witness of C4: "SAC 10 X 5 NC" was accepted on all four axes while both
\* tilts were off centre; the pans are 10 and 5 and the tilts are as before.
C4_Witness ==
    /\ last_call = <<"handle_serial_command",
                     SacLine(SAC, <<"1","0">>, <<"X">>, <<"5">>, <<"N","C">>)>>
    /\ Len(attempts) = 4
    /\ \A i \in 1..4 : attempts[i].result = "ok"
    /\ attempts[2].requested = -25 /\ attempts[4].requested = 70
    /\ eye_angles = [L |-> [pan |-> 100, tilt |-> -25],
                     R |-> [pan |-> 50, tilt |-> 70]]
    /\ out[Len(out)] = Line("CMD OK SAC", <<100, -25, 50, 70>>)

\* C5: a SAC/SACCADE line whose number of argument tokens is not 4 gets the
\* wrong-arity diagnostic whatever its tokens are; no axis command is made
\* and no eye state, controller state or setting changes.
C5_WrongArity ==
    [][ LET toks == StepTokens IN
        (IsSac(toks) /\ Len(ArgsOf(toks)) # 4) =>
          /\ out' = << Line("CMD ERR SAC needs 4 angles", <<>>) >>
          /\ NoMotion ]_vars

\* Witness of C5: "SAC 1 2 3" was answered with the wrong-arity diagnostic
\* while an eye was off centre.
C5_Witness ==
    /\ last_call = <<"handle_serial_command",
                     SAC \o Sp \o <<"1">> \o Sp \o <<"2">> \o Sp \o <<"3">> >>
    /\ out = << Line("CMD ERR SAC needs 4 angles", <<>>) >>
    /\ eye_angles["L"]["pan"] = 100

\* C6: a SAC/SACCADE line with exactly four tokens, one of which is neither
\* a hold sentinel nor a number, gets the invalid-number diagnostic, which is
\* not the wrong-arity one; no axis command is made, not even for the valid
\* tokens, and no eye state, controller state or setting changes.
C6_InvalidNumber ==
    [][ LET toks == StepTokens
            args == ArgsOf(toks)
        IN
        (/\ IsSac(toks)
         /\ Len(args) = 4
         /\ \E i \in 1..4 : args[i] \in InvalidSpellings)
        =>
          /\ out' = << Line("CMD ERR SAC invalid angle", <<>>) >>
          /\ out'[1].tag # "CMD ERR SAC needs 4 angles"
          /\ NoMotion ]_vars

\* Witness of C6: "SAC 10 X 5 1O" (letter O) was rejected as an invalid
\* number although its first three tokens are valid.
C6_Witness ==
    /\ last_call = <<"handle_serial_command",
                     SacLine(SAC, <<"1","0">>, <<"X">>, <<"5">>, <<"1","O">>)>>
    /\ out = << Line("CMD ERR SAC invalid angle", <<>>) >>
    /\ attempts = <<>>

\* C7: a line whose first token is, in any letter case, neither a nine-point
\* key nor SAC nor SACCADE is answered with the unknown-command response
\* carrying the line's text; no axis command is made and no eye state,
\* controller state or setting changes.
C7_UnknownCommand ==
    [][ LET toks == StepTokens IN
        (/\ Len(toks) >= 1
         /\ Upper(toks[1]) \notin
                NINE_POINT_KEYS \cup
                { <<"S","A","C">>, <<"S","A","C","C","A","D","E">> })
        =>
          /\ out' = << Line("CMD ERR Unknown command:", Strip(last_call'[2])) >>
          /\ NoMotion ]_vars

\* Witness of C7: "SACC 1 2 3 4" was answered as an unknown command with its
\* text echoed.
C7_Witness ==
    /\ last_call = <<"handle_serial_command",
                     SacLine(<<"S","A","C","C">>, <<"1">>, <<"2">>, <<"3">>, <<"4">>)>>
    /\ out = << Line("CMD ERR Unknown command:",
                     SacLine(<<"S","A","C","C">>, <<"1">>, <<"2">>, <<"3">>, <<"4">>)) >>
    /\ attempts = <<>>

\* The step is a pass of poll_serial_commands (the link did not change).
ReadStep ==
    /\ last_call'[1] = "poll_serial_commands"
    /\ serial_connected' = serial_connected

\* C8: when a character that is no terminator arrives while the line buffer
\* holds 64 characters (the 65th of the line), the buffer is reset to empty,
\* "line too long" is reported and nothing is passed to the command
\* dispatcher; and no command ever dispatched is longer than 64 characters.
C8_LineTooLong ==
    [][ /\ (/\ ReadStep
            /\ last_call'[2] \notin {"\n", "\r", "not connected"}
            /\ Len(serial_command_buffer) = 64)
           => /\ serial_command_buffer' = <<>>
              /\ out' = << Line("CMD ERR Line too long", <<>>) >>
              /\ dispatched' = <<>>
              /\ attempts' = <<>>
        /\ Len(serial_command_buffer') <= 64
        /\ \A i \in 1..Len(dispatched') : Len(dispatched'[i]) <= 64 ]_vars

\* Witness of C8: the 65th character of a line has just been read; the
\* buffer is empty and the diagnostic is out.
C8_Witness ==
    /\ LastIs("poll_serial_commands")
    /\ Len(cur_line) = 65
    /\ serial_command_buffer = <<>>
    /\ out = << Line("CMD ERR Line too long", <<>>) >>
    /\ dispatched = <<>>

\* C9 (as claimed): every command passed to handle_serial_command is the
\* whole whitespace-stripped content of one input line of at most 64
\* characters; no part of a longer line is dispatched.
C9_OneCommandPerLine ==
    (LastIs("poll_serial_commands") /\ dispatched # <<>>) =>
        /\ Len(last_call[3]) <= 64
        /\ dispatched = << Strip(last_call[3]) >>

\* C10: the line buffer never holds more than 64 characters, a terminator
\* always leaves it empty, and a terminator that ends a line of at most 64
\* characters dispatches that line's stripped content exactly once when it
\* is not blank and dispatches nothing when it is, whatever came before.
C10_NeverWedged ==
    /\ Len(serial_command_buffer) <= 64
    /\ (LastIs("poll_serial_commands") /\ last_call[2] \in {"\n", "\r"}) =>
           /\ serial_command_buffer = <<>>
           /\ Len(last_call[3]) <= 64 =>
                  dispatched = IF Strip(last_call[3]) = <<>> THEN <<>>
                               ELSE << Strip(last_call[3]) >>

\* Witness of C10: after an earlier line-too-long reset, a line of exactly 64
\* characters ending in the command C was terminated by a carriage return
\* and dispatched as C, and the axis commands were made.
C10_Witness ==
    /\ overflowed
    /\ LastIs("poll_serial_commands")
    /\ last_call[2] = "\r"
    /\ Len(last_call[3]) = 64
    /\ dispatched = << <<"C">> >>
    /\ Len(attempts) = 4
    /\ out[Len(out)] = Line("CMD OK 9PT", <<"C">>)

\* C11 (as claimed): a command dispatched by poll_serial_commands is made only
\* of characters that arrived since the serial link was last lost: the
\* characters buffered before the loss are not part of it, wherever the loss
\* and the reconnection fall between the reads of the foreground loop.
C11_NoStaleLineAcrossReconnect ==
    [][ (ReadStep /\ dispatched' # <<>>) =>
            dispatched' =
                << Strip(SubSeq(serial_command_buffer, stale_chars + 1,
                                Len(serial_command_buffer))) >> ]_vars

----------------------------------------------------------------------------
(* Nine-point requests *)

\* The eyes the eye-target setting selects, and the configured distance in
\* tenths of a degree, read off the settings.
TargetEyes ==
    CASE eye_selection_index = 0 -> <<"L">>
      [] eye_selection_index = 1 -> <<"R">>
      [] eye_selection_index = 2 -> <<"L", "R">>

ConfiguredDistance ==
    CASE point_distance_index = 0 -> 10
      [] point_distance_index = 1 -> 50
      [] point_distance_index = 2 -> 100
      [] point_distance_index = 3 -> 200
      [] point_distance_index = 4 -> 400

\* Both axis commands of the i-th targeted eye were accepted.
EyeMoved(i) ==
    /\ 2 * i <= Len(attempts)
    /\ attempts[2 * i - 1].result = "ok"
    /\ attempts[2 * i].result = "ok"

\* The last step was a nine-point request for key, made directly or through
\* the serial command of that name.
PointRequested(key) ==
    \/ last_call[1] = "apply_point_selection" /\ last_call[2] = key
    \/ last_call[1] = "handle_serial_command" /\ Upper(Strip(last_call[2])) = key

\* C12 (as claimed): apply_point_selection with one of the nine keys commands,
\* for each eye the eye-target setting selects and in that order, pan and tilt
\* to vector * configured distance with a vector in {-1,0,1}^2, and returns
\* True exactly when one of these eyes had both commands accepted; with any
\* other key it returns False and commands nothing.
C12_NinePointRequest ==
    LastIs("apply_point_selection") =>
        LET key == last_call[2] IN
        IF key \in NINE_POINT_KEYS
        THEN LET v == NINE_POINT_VECTORS(key) IN
             /\ v[1] \in {-1, 0, 1} /\ v[2] \in {-1, 0, 1}
             /\ Len(attempts) = 2 * Len(TargetEyes)
             /\ \A i \in 1..Len(TargetEyes) :
                    /\ attempts[2 * i - 1].eye = TargetEyes[i]
                    /\ attempts[2 * i - 1].axis = "pan"
                    /\ attempts[2 * i - 1].requested = v[1] * ConfiguredDistance
                    /\ attempts[2 * i].eye = TargetEyes[i]
                    /\ attempts[2 * i].axis = "tilt"
                    /\ attempts[2 * i].requested = v[2] * ConfiguredDistance
             /\ last_call[3] =
                    IF \E i \in 1..Len(TargetEyes) : EyeMoved(i)
                    THEN "True" ELSE "False"
        ELSE /\ last_call[3] = "False"
             /\ attempts = <<>>

\* C13: the command C, under every configured distance and eye target,
\* commands only targeted eyes and every axis to 0 degrees, and when it is
\* answered CMD OK every targeted eye's recorded state is (0, 0).
C13_CenterCommand ==
    (LastIs("handle_serial_command") /\ Upper(Strip(last_call[2])) = <<"C">>) =>
        /\ \A i \in 1..Len(attempts) :
               /\ attempts[i].requested = 0
               /\ attempts[i].clamped = 0
               /\ attempts[i].pulse = Us(SERVO_LOOKUP(attempts[i].eye,
                                                     attempts[i].axis).zero_pulse_us)
               /\ \E j \in 1..Len(TargetEyes) : attempts[i].eye = TargetEyes[j]
        /\ (out # <<>> /\ out[Len(out)] = Line("CMD OK 9PT", <<"C">>)) =>
               \A j \in 1..Len(TargetEyes) :
                   eye_angles[TargetEyes[j]] = [pan |-> 0, tilt |-> 0]
        /\ \A j \in 1..Len(TargetEyes) :
               EyeMoved(j) => eye_angles[TargetEyes[j]] = [pan |-> 0, tilt |-> 0]

\* Witness of C13: C was answered CMD OK at distance 40 with both eyes
\* targeted, all four axes commanded to 0.
C13_Witness ==
    /\ last_call = <<"handle_serial_command", <<"C">>>>
    /\ ConfiguredDistance = 400
    /\ TargetEyes = <<"L", "R">>
    /\ Len(attempts) = 4
    /\ \A i \in 1..4 : attempts[i].result = "ok" /\ attempts[i].requested = 0
    /\ out[Len(out)] = Line("CMD OK 9PT", <<"C">>)
    /\ eye_angles = [L |-> [pan |-> 0, tilt |-> 0], R |-> [pan |-> 0, tilt |-> 0]]

\* The pulse, in tenths of a microsecond, of each axis at +10 degrees:
\* zero_pulse_us + direction * 10 * 11.
PulseAtPlus10(eye, axis) ==
    CASE eye = "L" /\ axis = "pan"  -> 13800
      [] eye = "L" /\ axis = "tilt" -> 15700
      [] eye = "R" /\ axis = "pan"  -> 14500
      [] eye = "R" /\ axis = "tilt" -> 13500

\* C14: UR at distance 10 with both eyes targeted commands every axis to +10
\* degrees with the pulse zero_pulse_us + direction*10*11 of that axis (the
\* two tilts on opposite sides of their zero), and when all four commands are
\* accepted both eyes record (+10, +10).
C14_UpRightBoth ==
    (/\ PointRequested(<<"U","R">>)
     /\ ConfiguredDistance = 100
     /\ TargetEyes = <<"L", "R">>)
    =>
        /\ \A i \in 1..Len(attempts) :
               /\ attempts[i].eye = SacAxes[i][1]
               /\ attempts[i].axis = SacAxes[i][2]
               /\ attempts[i].requested = 100
               /\ attempts[i].clamped = 100
               /\ attempts[i].pulse = PulseAtPlus10(attempts[i].eye, attempts[i].axis)
        /\ (Len(attempts) = 4 /\ \A i \in 1..4 : attempts[i].result = "ok") =>
               /\ eye_angles["L"] = [pan |-> 100, tilt |-> 100]
               /\ eye_angles["R"] = eye_angles["L"]
               /\ attempts[2].pulse - 14600 = 14600 - attempts[4].pulse
               /\ attempts[2].pulse > 14600

\* Witness of C14: "ur" was answered CMD OK with all four axes accepted and
\* both eyes at (+10, +10).
C14_Witness ==
    /\ last_call = <<"handle_serial_command", <<"u","r">>>>
    /\ ConfiguredDistance = 100
    /\ TargetEyes = <<"L", "R">>
    /\ Len(attempts) = 4
    /\ \A i \in 1..4 : attempts[i].result = "ok"
    /\ eye_angles = [L |-> [pan |-> 100, tilt |-> 100],
                     R |-> [pan |-> 100, tilt |-> 100]]
    /\ out[Len(out)] = Line("CMD OK 9PT", <<"U","R">>)

----------------------------------------------------------------------------
(* Responses of the protocol *)

OkTags == {"CMD OK 9PT", "CMD OK SAC"}
ErrTags ==
    {"CMD ERR 9PT", "CMD ERR SAC needs 4 angles", "CMD ERR SAC invalid angle",
     "CMD ERR SAC move failed", "CMD ERR Unknown command:"}

\* The response lines among the printed lines, in order.
Responses(lines) ==
    SelectSeq(lines, LAMBDA l : l.tag \in OkTags \cup ErrTags)

\* Which axis commands were accepted.
AxisResults(att) == [i \in 1..Len(att) |-> att[i].result = "ok"]

\* The step's response tells its per-axis results from those of the run
\* that ended as other did.
ToldApartFrom(other) ==
    (/\ ~other.crashed
     /\ Len(other.attempts) = 4
     /\ AxisResults(other.attempts) # AxisResults(attempts'))
    => Responses(other.out) # Responses(out')

\* C15 (as claimed): the response to a SAC whose four axis commands were all
\* made tells which of them succeeded: two runs of the same line from the
\* same state that differ in which axes succeeded get different responses.
C15_PerAxisReport ==
    [][ LET toks == StepTokens IN
        (/\ IsSac(toks)
         /\ Len(attempts') = 4
         /\ ~crashed')
        => \A env \in Envs :
               ToldApartFrom(handle_serial_command(Machine, last_call'[2], env))
      ]_vars

\* C16 (as claimed): a line that is not blank gets exactly one response
\* line, the last line printed, CMD OK or CMD ERR; CMD OK 9PT only when a
\* selected eye had both axis commands accepted, CMD OK SAC only when all
\* four were; a blank line gets no response and commands nothing.
C16_OneResponsePerLine ==
    LastIs("handle_serial_command") =>
        IF Strip(last_call[2]) = <<>>
        THEN out = <<>> /\ attempts = <<>>
        ELSE /\ Len(Responses(out)) = 1
             /\ out[Len(out)] = Responses(out)[1]
             /\ out[Len(out)].tag = "CMD OK 9PT" =>
                    \E i \in 1..Len(TargetEyes) : EyeMoved(i)
             /\ out[Len(out)].tag = "CMD OK SAC" =>
                    /\ Len(attempts) = 4
                    /\ \A i \in 1..4 : attempts[i].result = "ok"

----------------------------------------------------------------------------
(* The menu *)

\* The step handled a key event and ran action for it.
KeyStep(action) ==
    /\ events' = events + 1
    /\ last_call'[1] = "key"
    /\ last_call'[4] = action

\* Number of options of each section, by 0-based section index.
OptionCount(index) ==
    CASE index = 0 -> 9
      [] index = 1 -> 0
      [] index = 2 -> 2

\* C17: cycle_menu moves the active section from 0 to 1, 1 to 2 and 2 back to
\* 0 (one step modulo the three sections, so three cycles return to the
\* start); the newly active section's cursor becomes 0 when it has options
\* and had no cursor; every other cursor, every selected option, both
\* settings and the eye state stay as they were, and no axis is commanded.
C17_CycleMenu ==
    [][ KeyStep("cycle_menu") =>
          /\ current_menu_index' = (current_menu_index + 1) % 3
          /\ current_menu_index \in 0..2
          /\ \A i \in 1..3 :
                 current_option_indices'[i] =
                     IF /\ i = current_menu_index' + 1
                        /\ OptionCount(i - 1) > 0
                        /\ current_option_indices[i] = NoIndex
                     THEN 0
                     ELSE current_option_indices[i]
          /\ selected_option_indices' = selected_option_indices
          /\ UNCHANGED <<settingVars, eye_angles>>
          /\ attempts' = <<>> ]_vars

\* Witness of C17: a cycle has just wrapped from the last section to the
\* first, after a nine-point option other than the default was selected and
\* the left eye had moved.
C17_Witness ==
    /\ LastIs("key") /\ last_call[4] = "cycle_menu"
    /\ current_menu_index = 0
    /\ selected_option_indices[1] = 5
    /\ eye_angles["L"]["pan"] = 100

\* C18: cycle_option in a section with options moves that section's cursor
\* one step modulo the number of its options (9 for 9-pt, 2 for Settings) and
\* leaves the other cursors, every selected option, the active section, the
\* settings and the eye state as they were; in the Zero section, which has no
\* options, it changes nothing at all.
C18_CycleOption ==
    [][ KeyStep("cycle_option") =>
          IF OptionCount(current_menu_index) = 0
          THEN /\ UNCHANGED <<servoVars, settingVars, serialVars, crashed,
                              current_menu_index, current_option_indices,
                              selected_option_indices, d2_press_time>>
               /\ attempts' = <<>> /\ out' = <<>>
          ELSE /\ \A i \in 1..3 :
                      current_option_indices'[i] =
                          IF i = current_menu_index + 1
                          THEN (current_option_indices[i] + 1)
                                   % OptionCount(current_menu_index)
                          ELSE current_option_indices[i]
               /\ UNCHANGED <<selected_option_indices, current_menu_index,
                              settingVars, eye_angles>>
               /\ attempts' = <<>> ]_vars

\* Witness of C18: the nine-point cursor has just wrapped from the last
\* option to the first.
C18_Witness ==
    /\ LastIs("key") /\ last_call[4] = "cycle_option"
    /\ current_menu_index = 0
    /\ current_option_indices[1] = 0
    /\ selected_option_indices[1] = 4

\* C19: a D2 release runs handle_selection when a press is recorded and the
\* clock reads at least 0.6 s more than at that press, and cycle_menu
\* otherwise (also when no press is recorded); it runs one of the two and
\* not the other, and it clears the recorded press.  A D2 press records the
\* clock and does nothing else.
C19_D2Button ==
    [][ (events' = events + 1 /\ last_call'[1] = "key" /\ last_call'[2] = "D2") =>
          LET action == last_call'[4]
              now    == last_call'[6]
          IN  IF last_call'[3] = "pressed"
              THEN /\ action = "none"
                   /\ d2_press_time' = now
                   /\ UNCHANGED <<servoVars, settingVars, serialVars, crashed,
                                  current_menu_index, current_option_indices,
                                  selected_option_indices>>
                   /\ attempts' = <<>> /\ out' = <<>>
              ELSE /\ d2_press_time' = NoTime
                   /\ action =
                          IF d2_press_time # NoTime /\ now - d2_press_time >= 60
                          THEN "handle_selection" ELSE "cycle_menu"
                   /\ action = "cycle_menu" =>
                          /\ current_menu_index' = (current_menu_index + 1) % 3
                          /\ selected_option_indices' = selected_option_indices
                          /\ attempts' = <<>>
                   /\ action = "handle_selection" =>
                          /\ current_menu_index' = current_menu_index
                          /\ current_option_indices' = current_option_indices
                          /\ crashed' \/
                                 selected_option_indices'[current_menu_index + 1]
                                     # NoIndex ]_vars

\* Witness of C19: a D2 press at 1.30 s released at 1.90 s, exactly the
\* threshold, ran handle_selection in the Zero section: both eyes were
\* commanded and the recorded press is cleared.
C19_Witness ==
    /\ last_call = <<"key", "D2", "released", "handle_selection", 130, 190>>
    /\ current_menu_index = 1
    /\ d2_press_time = NoTime
    /\ Len(attempts) = 4
    /\ selected_option_indices[2] = 0

\* C20 (as claimed): selecting in the Zero section commands both eyes, L and
\* R, pan and tilt, to 0 degrees whatever the eye-target setting is, and
\* leaves the nine-point cursor on the centre option C.
C20_ZeroRecentres ==
    (/\ LastIs("key") /\ last_call[4] = "handle_selection"
     /\ current_menu_index = 1)
    =>
        /\ Len(attempts) = 4
        /\ \A i \in 1..Len(attempts) :
               /\ attempts[i].eye = SacAxes[i][1]
               /\ attempts[i].axis = SacAxes[i][2]
               /\ attempts[i].requested = 0
        /\ MENU[1].options[current_option_indices[1] + 1] = <<"C">>

\* The eye-target value after v, and the range value after v, in the order
\* the claim gives.
EyeAfter(v) ==
    CASE v = "L" -> "R"
      [] v = "R" -> "B"
      [] v = "B" -> "L"

RangeAfter(v) ==
    CASE v = 1 -> 5
      [] v = 5 -> 10
      [] v = 10 -> 20
      [] v = 20 -> 40
      [] v = 40 -> 1

\* C21: handle_selection in the Settings section steps exactly the
\* sub-setting under the cursor (cursor 0, Eye: L -> R -> B -> L; cursor 1,
\* Range: 1 -> 5 -> 10 -> 20 -> 40 -> 1) and leaves the other one as it was;
\* it commands no axis and changes no eye angle.
C21_SettingsToggle ==
    [][ (KeyStep("handle_selection") /\ current_menu_index = 2) =>
          /\ current_option_indices[3] \in {0, 1}
          /\ IF current_option_indices[3] = 0
             THEN /\ get_eye_selection' = EyeAfter(get_eye_selection)
                  /\ point_distance_index' = point_distance_index
             ELSE /\ get_point_distance' = Deg(RangeAfter(get_point_distance \div Deg(1)))
                  /\ eye_selection_index' = eye_selection_index
          /\ attempts' = <<>>
          /\ eye_angles' = eye_angles ]_vars

\* Witness of C21: with the cursor on Range, a selection has just wrapped the
\* range from 40 to 1 while the eye target is still B.
C21_Witness ==
    /\ LastIs("key") /\ last_call[4] = "handle_selection"
    /\ current_menu_index = 2
    /\ current_option_indices[3] = 1
    /\ get_point_distance = Deg(1)
    /\ get_eye_selection = "B"

----------------------------------------------------------------------------
(* The host tool *)

\* The step starts the host command name (the prompt had been reached).
HostStep(name) == HostIdle /\ host_call'.name = name

\* The bounds the request <<x, y>> breaks under the limits the device
\* reports, each with its axis, the absolute target and the limit.
Violations(x, y) ==
    {e \in { HostError("Pan", "minimum", Deg(97) - x, phidget.limits[1]),
             HostError("Pan", "maximum", Deg(97) - x, phidget.limits[2]),
             HostError("Tilt", "minimum", Deg(93) - y, phidget.limits[3]),
             HostError("Tilt", "maximum", Deg(93) - y, phidget.limits[4]) } :
        IF e.bound = "minimum" THEN e.position < e.limit
        ELSE e.position > e.limit}

\* The device calls of a log that prepare or make a move.
MotionCalls(calls) ==
    {i \in 1..Len(calls) : calls[i].op \in {"configure", "setEngaged", "setPosition"}}

\* The limits were asked for and the read raised.
LimitsUnread(calls) ==
    \E i \in 1..Len(calls) : calls[i].op = "getPositionLimits" /\ calls[i].value = 0

\* C22: with the limit check on and the device connected, a saccade or
\* profiled saccade whose absolute target breaks a reported bound on either
\* axis, or whose limits cannot be read, returns False; its message lists
\* exactly the bounds broken, each with its axis (or says the limits are
\* unreadable); no configure, engage or setPosition call is made, the device
\* keeps its commanded position, and a profiled saccade starts no sampling
\* thread and leaves the flag and the stored profile alone.
C22_OutOfRangeRejected ==
    [][ ((HostStep("saccade") \/ HostStep("saccade_with_profile"))
         /\ connected /\ host_call'.check_limits
         /\ (Violations(host_call'.x, host_call'.y) # {}
             \/ LimitsUnread(host_call'.calls)))
        =>
          /\ host_call'.returned = "False"
          /\ IF LimitsUnread(host_call'.calls)
             THEN host_call'.errors = <<HostError("none", "unreadable", 0, 0)>>
             ELSE /\ {host_call'.errors[i] : i \in 1..Len(host_call'.errors)}
                        = Violations(host_call'.x, host_call'.y)
                  /\ Len(host_call'.errors)
                        = Cardinality(Violations(host_call'.x, host_call'.y))
          /\ MotionCalls(host_call'.calls) = {}
          /\ UNCHANGED <<phidget, threads, profiling, profile_data, host_pc,
                         connected>> ]_vars

\* Witness of C22: a profiled saccade to (30, -30) has just been refused for
\* the pan minimum and the tilt maximum at once, while an earlier run's
\* profile is still stored.
C22_Witness ==
    /\ host_call.name = "saccade_with_profile"
    /\ host_call.returned = "False"
    /\ Len(host_call.errors) = 2
    /\ host_call.errors[1].bound = "minimum"
    /\ host_call.errors[2].bound = "maximum"
    /\ profile_data # <<>>

\* The check refused the request for a bound.
RefusedForLimits(errors) ==
    \E i \in 1..Len(errors) : errors[i].axis \in {"Pan", "Tilt"}

\* C23: for a saccade with the limit check on and for a profiled saccade,
\* on a connected device whose limits could be read, the request <<x, y>> is
\* accepted by check_position_valid exactly when 97 - x lies within the
\* reported pan limits and 93 - y within the reported tilt limits, and every
\* setPosition call then made carries exactly 97 - x on the pan channel and
\* 93 - y on the tilt channel: the positions commanded are the positions
\* checked.
C23_CheckMatchesMove ==
    (/\ host_call.name \in {"saccade", "saccade_with_profile"}
     /\ host_call.check_limits /\ connected
     /\ ~LimitsUnread(host_call.calls))
    =>
      /\ ~RefusedForLimits(host_call.errors)
            <=> /\ phidget.limits[1] <= Deg(97) - host_call.x
                /\ Deg(97) - host_call.x <= phidget.limits[2]
                /\ phidget.limits[3] <= Deg(93) - host_call.y
                /\ Deg(93) - host_call.y <= phidget.limits[4]
      /\ \A i \in 1..Len(host_call.calls) :
             host_call.calls[i].op = "setPosition" =>
                 /\ host_call.calls[i].value =
                        IF host_call.calls[i].channel = 0
                        THEN Deg(97) - host_call.x
                        ELSE Deg(93) - host_call.y
                 /\ ~RefusedForLimits(host_call.errors)

\* Witness of C23: a saccade to x = 27 has been accepted and has sent the pan
\* servo to 70.0, exactly the reported pan minimum, and the tilt servo to 93.
C23_Witness ==
    /\ host_call.name = "saccade" /\ host_call.check_limits
    /\ host_call.x = Deg(27)
    /\ host_call.returned = "True"
    /\ phidget.limits[1] = Deg(70)
    /\ phidget.commanded = <<Deg(70), Deg(93)>>

NearlyEqual(a, b) ==
    /\ a.neg = b.neg
    /\ \A i \in 1..(IntBits + 45) :
           (IF LessBits(a.bits, b.bits) THEN SubBits(b.bits, a.bits)
            ELSE SubBits(a.bits, b.bits))[i] = 0

----------------------------------------------------------------------------
(* Commands without a connection *)

\* The step ran handle_serial_command on a line.
LineStep == last_call'[1] \in {"handle_serial_command", "retry"}

\* An axis command is refused without a write: the controller was not found
\* before the step and is not found in it.
ControllerRefuses ==
    (LineStep /\ attempts' # <<>>
     /\ servo_controller = "None" /\ servo_controller' = "None")
    => /\ \A i \in 1..Len(attempts') : attempts'[i].result = "noctl"
       /\ Len(Responses(out')) = 1
       /\ Responses(out')[1].tag \in ErrTags
       /\ eye_angles' = eye_angles
       /\ servo_status' = SERVO_DEFAULT_STATUS
       /\ ~crashed'

\* The refused line is given again, the controller is found by its first
\* axis command and no write raises.
ControllerRecovers ==
    (/\ last_call'[1] = "retry"
     /\ servo_controller = "None"
     /\ attempts'[1].result = "ok"
     /\ \A i \in 1..Len(attempts') : attempts'[i].result # "raised")
    => /\ last_call'[2] = last_call[2]
       /\ Len(Responses(out')) = 1
       /\ Responses(out')[1].tag \in OkTags
       /\ \A i \in 1..Len(attempts') :
              /\ attempts'[i].result = "ok"
              /\ eye_angles'[attempts'[i].eye][attempts'[i].axis]
                     = attempts'[i].clamped
       /\ servo_status' = "Controller connected"
       /\ ~crashed'

HostRefuses ==
    ((HostStep("saccade") \/ HostStep("saccade_with_profile")) /\ ~connected)
    => /\ host_call'.returned = "False"
       /\ host_call'.calls = <<>>
       /\ host_call'.errors = <<NotConnectedError>>
       /\ host_pc' = "idle"
       /\ UNCHANGED <<connected, phidget, profiling, profile_data, threads>>

\* The command of the step is the one refused before connect().
SameCommand ==
    /\ Reconnected
    /\ host_call.after = <<host_call'.name, host_call'.x, host_call'.y,
                           host_call'.check_limits>>

\* The target of the step's command is within the limits, or unchecked, and
\* no device call of the step raised.
DeviceAccepts ==
    /\ host_call'.check_limits =>
           /\ Violations(host_call'.x, host_call'.y) = {}
           /\ ~LimitsUnread(host_call'.calls)
    /\ host_call'.errors # <<HostError("none", "device error", 0, 0)>>

HostRecovers ==
    /\ (SameCommand /\ connected /\ DeviceAccepts) =>
           IF host_call'.name = "saccade"
           THEN /\ host_call'.returned = "True"
                /\ phidget'.commanded = <<pan_zero - host_call'.x,
                                          tilt_zero - host_call'.y>>
           ELSE /\ host_call'.returned = "pending"
                /\ profiling'
                /\ Len(threads') = Len(threads) + 1
    /\ (host_pc = "analyzing" /\ host_pc' = "idle") =>
           /\ host_call'.returned = "True"
           /\ phidget'.commanded = <<pan_zero - host_call'.x,
                                     tilt_zero - host_call'.y>>

\* C25: while the actuator is not connected, a motion command of either
\* program (an axis command of a serial line; saccade or
\* saccade_with_profile) fails without a write or device call, leaves the
\* eye state and the device alone, leaves the program running and the status
\* at its not-connected default; when the connection is then made (by the
\* line's first axis command, by connect()) the same command, given again,
\* succeeds, provided the connected device accepts it (target within its
\* limits, no write or device call raising).
C25_NotConnectedRefused ==
    [][ControllerRefuses /\ ControllerRecovers /\ HostRefuses /\ HostRecovers]_vars

\* Witness of C25: saccade(5, -5) was refused, connect() was called, and the
\* same saccade has sent the servos to (92, 98); the line SAC 10 X 5 NC was
\* refused, given again, and answered with CMD OK SAC.
C25_Witness ==
    /\ host_call.after = <<"saccade", Deg(5), 0 - Deg(5), TRUE>>
    /\ host_call.name = "saccade" /\ host_call.x = Deg(5)
    /\ host_call.returned = "True"
    /\ phidget.commanded = <<Deg(92), Deg(98)>>
    /\ last_call = <<"retry", SacLine(SAC, <<"1","0">>, <<"X">>, <<"5">>, <<"N","C">>)>>
    /\ Responses(out)[1].tag = "CMD OK SAC"
    /\ servo_controller # "None"

----------------------------------------------------------------------------
(* The duty cycle *)

\* C26: for every pulse width, negative and longer than the PWM period
\* included, and every positive frequency, pulse_us_to_duty_cycle returns an
\* integer from 0 to 65535, and so is the duty that set_servo_pulse hands to
\* a channel, whatever pulse it is called with.
C26_DutyInRange ==
    /\ LastIs("pulse_us_to_duty_cycle") => last_call[4] \in 0..65535
    /\ (LastIs("set_servo_pulse") /\ last_call[4] # "noctl") =>
           last_call[5] \in 0..65535

\* Witness of C26: at 333 Hz a pulse of 20000 us, longer than the period,
\* has been converted to 65535.
C26_Witness ==
    /\ LastIs("pulse_us_to_duty_cycle")
    /\ last_call[2] = Us(20000) /\ last_call[3] = 333
    /\ last_call[4] = 65535

----------------------------------------------------------------------------
(* The sampling thread *)

\* The runs whose _profile_thread is in its sampling loop.
Sampling == {r \in 1..Len(threads) : threads[r].pc \in {"check", "sample"}}

\* C27 (as claimed): at most one _profile_thread is in its sampling loop at
\* any time, whatever profiled moves were made before and however their
\* joins returned.
C27_OneSamplingThread == Cardinality(Sampling) <= 1

\* C28 (as claimed): once _analyze_profile or save_profile has begun to read
\* profile_data, no sample is appended until it has returned.
C28_NoAppendWhileRead == ~host_call.grew

\* C29 (as claimed): every sample in profile_data was appended by the
\* sampling thread of the most recent run.
C29_OnlyLatestRun ==
    \A i \in 1..Len(profile_data) : profile_data[i].run = Len(threads)

\* The thread of record r is alive.
Alive(r) == r <= Len(threads) /\ threads[r].pc # "done"

\* saccade_with_profile returns to its caller.
CallReturns ==
    (host_pc \in {"started", "joining", "analyzing"}) ~> (host_pc = "idle")

\* C30 (as claimed): every sampling thread ends in the end (on reaching the
\* tolerance, on a read that raises, or once the commanding thread has
\* cleared the flag), and saccade_with_profile returns to its caller.
C30_ThreadsEnd ==
    /\ \A r \in 1..MaxRuns : Alive(r) ~> ~Alive(r)
    /\ CallReturns

\* The thread of the latest run finds the flag cleared and leaves its loop.
StoppedByFlag ==
    /\ threads # <<>>
    /\ Len(threads') = Len(threads)
    /\ threads[Len(threads)].pc = "check"
    /\ threads'[Len(threads)].pc = "exit"

\* C31 (as claimed): the sampling loop of a run ends only for that run's own
\* reasons; the flag that ends it is never found cleared while the run's
\* commanding call has not yet come back from its join (nor failed): the
\* end of an earlier run's thread does not stop the run.
C31_StoppedByOwnRun ==
    [][StoppedByFlag => host_pc \notin {"started", "joining"}]_vars

----------------------------------------------------------------------------
(* The order of a profiled move *)

\* The places of the log where op is entered (for a device call: on channel).
Places(calls, op) == {i \in 1..Len(calls) : calls[i].op = op}

PlacesOn(calls, op, channel) ==
    {i \in Places(calls, op) : calls[i].channel = channel}

\* C32: in the log of a profiled move the start of the sampling thread comes
\* before every setPosition, setPosition for both axes comes before the
\* join, the analysis comes after the join has returned, and there is at
\* most one analysis (and one start and one join).
C32_ProfiledMoveOrder ==
    host_call.name = "saccade_with_profile" =>
        LET calls == host_call.calls IN
        /\ \A i \in Places(calls, "setPosition") :
               \E j \in Places(calls, "start") : j < i
        /\ \A i \in Places(calls, "join") :
               /\ \E j \in PlacesOn(calls, "setPosition", PAN_CHANNEL) : j < i
               /\ \E j \in PlacesOn(calls, "setPosition", TILT_CHANNEL) : j < i
        /\ \A i \in Places(calls, "_analyze_profile") :
               \E j \in Places(calls, "join") : j < i
        /\ Cardinality(Places(calls, "_analyze_profile")) <= 1
        /\ Cardinality(Places(calls, "start")) <= 1
        /\ Cardinality(Places(calls, "join")) <= 1
        /\ host_pc = "joining" => Places(calls, "join") = {}
        /\ host_pc = "analyzing" => Places(calls, "_analyze_profile") = {}
        /\ host_call.returned = "True" => Places(calls, "_analyze_profile") # {}

\* Witness of C32: a profiled move has returned True with start, the two
\* setPosition calls, join and the analysis in its log, in that order.
C32_Witness ==
    /\ host_call.name = "saccade_with_profile"
    /\ host_call.returned = "True"
    /\ Len(host_call.calls) = 10
    /\ host_call.calls[6].op = "start"
    /\ host_call.calls[7].op = "setPosition"
    /\ host_call.calls[8].op = "setPosition"
    /\ host_call.calls[9].op = "join"
    /\ host_call.calls[10].op = "_analyze_profile"

----------------------------------------------------------------------------
(* The analysis of a profile *)

\* The step is a pass of the sampling loop in which the read succeeded.
SampleTaken ==
    \E r \in 1..Len(threads) :
        /\ threads[r].pc = "sample"
        /\ threads'[r].pc # "sample"
        /\ profile_data' # profile_data

\* What the analysis of the call printed, if it has run.
Printed ==
    {host_call.calls[i].value : i \in Places(host_call.calls, "_analyze_profile")}

NoAcceleration(axis) == axis.peak = Null /\ axis.avg = Null

\* C33: in a profiled move to where the servos stand, the first pass of the
\* sampling loop whose reads succeed adds the only sample of the profile and
\* ends the loop; the profile never has more than one sample, and the
\* analysis reports no peak and no average acceleration on either axis
\* (nothing at all when it ran on an empty profile).
C33_ZeroDisplacement ==
    [][ /\ SampleTaken =>
               /\ Len(profile_data') = 1
               /\ threads'[Len(threads)].pc = "exit"
        /\ (Len(profile_data) <= 1)'
        /\ (host_call.name = "saccade_with_profile" =>
               \A p \in Printed :
                   \/ p = Null
                   \/ /\ p[1].samples = 1
                      /\ NoAcceleration(p[1].pan)
                      /\ NoAcceleration(p[1].tilt))' ]_vars

\* Witness of C33: a profiled move to (5, -5), where the servos stood, has
\* returned True with one sample at (92, 98) without a timeout, and its
\* analysis has printed statistics without accelerations.
C33_Witness ==
    /\ host_call.name = "saccade_with_profile"
    /\ host_call.x = Deg(5)
    /\ host_call.returned = "True"
    /\ ~host_call.timed_out
    /\ Len(profile_data) = 1
    /\ profile_data[1].pan_abs = Deg(92)
    /\ \E p \in Printed : p # Null /\ NoAcceleration(p[1].pan)

\* The number of samples of the stored profile that have a velocity on the
\* axis whose device velocity is field vel: the device's where any sample
\* has a pan velocity, else one for every sample later than the one before.
ValidVelocities(vel) ==
    IF \E i \in 1..Len(profile_data) : profile_data[i].pan_vel # Null
    THEN Cardinality({i \in 1..Len(profile_data) : profile_data[i][vel] # Null})
    ELSE Cardinality({i \in 2..Len(profile_data) :
                          profile_data[i].time > profile_data[i - 1].time})

\* C34: an axis with fewer than 4 valid velocity samples gets neither a peak
\* nor an average acceleration; an empty profile gets no statistic at all.
C34_TooFewVelocities ==
    host_call.name = "_analyze_profile" =>
        \A p \in Printed :
            IF profile_data = <<>> THEN p = Null
            ELSE /\ p # Null
                 /\ ValidVelocities("pan_vel") < 4 => NoAcceleration(p[1].pan)
                 /\ ValidVelocities("tilt_vel") < 4 => NoAcceleration(p[1].tilt)

\* Witness of C34: a profile of five samples, three of them with a velocity,
\* has been analysed without accelerations.
C34_Witness ==
    /\ host_call.name = "_analyze_profile"
    /\ Len(profile_data) = 5
    /\ ValidVelocities("pan_vel") = 3
    /\ \E p \in Printed : p # Null /\ NoAcceleration(p[1].pan)

\* The join of the call returns although the run's thread has not ended.
JoinTimesOut ==
    /\ host_pc = "joining"
    /\ host_pc' # "joining"
    /\ threads[Len(threads)].pc # "done"

\* The call whose join timed out leaves its analysis.
TimedOutReturns ==
    /\ host_pc = "analyzing"
    /\ host_pc' # "analyzing"
    /\ host_call.timed_out

\* C35: a join that times out is not an error.  The call goes on to the
\* analysis with the samples taken so far, the analysis runs, the call
\* returns True without an error, and the samples stay in the profile: only
\* a later profiled run that passes its checks takes samples out of it.
C35_TimeoutCompletes ==
    [][ /\ JoinTimesOut =>
               /\ host_pc' = "analyzing"
               /\ host_call'.timed_out
               /\ host_call'.returned = "pending"
               /\ host_call'.errors = <<>>
               /\ profile_data' = profile_data
        /\ TimedOutReturns =>
               /\ host_pc' = "idle"
               /\ host_call'.returned = "True"
               /\ host_call'.errors = <<>>
               /\ Places(host_call'.calls, "_analyze_profile") # {}
               /\ profile_data' = profile_data
        /\ \/ IsPrefix(profile_data, profile_data')
           \/ /\ HostStep("saccade_with_profile")
              /\ host_pc' = "started" \/ host_call'.returned = "False" ]_vars

\* Witness of C35: a profiled move has returned True after a join that
\* timed out and an analysis, its thread is still sampling, and the profile
\* holds a sample of it.
C35_Witness ==
    /\ host_call.name = "saccade_with_profile"
    /\ host_call.timed_out
    /\ host_call.returned = "True"
    /\ host_pc = "idle"
    /\ Places(host_call.calls, "_analyze_profile") # {}
    /\ threads[Len(threads)].pc = "sample"
    /\ \E i \in 1..Len(profile_data) : profile_data[i].run = Len(threads)

\* The stored profile has device velocities on every sample of at least 4,
\* all of them equal on the pan axis but for one.
OneSpike ==
    /\ Len(profile_data) >= 4
    /\ \A i \in 1..Len(profile_data) : profile_data[i].pan_vel # Null
    /\ \E at \in 1..Len(profile_data) :
           \A i, j \in 1..Len(profile_data) \ {at} :
               /\ profile_data[i].pan_vel = profile_data[j].pan_vel
               /\ profile_data[i].pan_vel # profile_data[at].pan_vel

\* The largest of the accelerations.
MaxAccel(accels) ==
    CHOOSE v \in {accels[i] : i \in 1..Len(accels)} :
        \A i \in 1..Len(accels) : accels[i] <= v

\* C36: the peak acceleration reported for a velocity series with one spike
\* is strictly less than the largest of the absolute accelerations.
C36_PeakBelowMaximum ==
    (host_call.name = "_analyze_profile" /\ OneSpike) =>
        \A p \in Printed :
            /\ p[1].pan.peak # Null
            /\ p[1].pan.peak[1] < MaxAccel(p[1].pan.accels)

\* Every stored eye angle is within the servo range.
AnglesInRange ==
    \A eye \in Eyes, axis \in Axes :
        /\ eye_angles[eye][axis] >= 0 - Deg(SERVO_RANGE_DEGREES)
        /\ eye_angles[eye][axis] <= Deg(SERVO_RANGE_DEGREES)

\* C37: whatever command lines and key events the main loop has handled and
\* whichever axis commands found no controller or failed, every stored eye
\* angle is within -45..+45 degrees; and an axis held in a SAC line is
\* commanded at its stored angle, which the clamp leaves as it is.
C37_StoredAnglesInRange ==
    /\ []AnglesInRange
    /\ [][ LET args == ArgsOf(StepTokens)
           IN  (IsSac(StepTokens) /\ Len(args) = 4) =>
                   \A i \in 1..Len(attempts') :
                       args[i] \in HoldSpellings =>
                           /\ attempts'[i].requested =
                                  eye_angles[SacAxes[i][1]][SacAxes[i][2]]
                           /\ attempts'[i].clamped = attempts'[i].requested
                           /\ attempts'[i].pulse =
                                  AxisPulse(SERVO_LOOKUP(SacAxes[i][1], SacAxes[i][2]),
                                            attempts'[i].requested) ]_vars

\* Witness of C37: after the distance setting was changed and both bounds
\* were stored by lines that asked for more, "SAC H h KEEP skip" has sent
\* the left pan at +45 and the right pan at -45 again.
C37_Witness ==
    /\ last_call = <<"handle_serial_command",
                     SacLine(SAC, <<"H">>, <<"h">>, <<"K","E","E","P">>,
                             <<"s","k","i","p">>)>>
    /\ point_distance_index # IndexOf(POINT_DISTANCE_OPTIONS, 10)
    /\ Len(attempts) = 4
    /\ \A i \in 1..4 : attempts[i].result = "ok"
    /\ attempts[1].clamped = Deg(SERVO_RANGE_DEGREES)
    /\ attempts[3].clamped = 0 - Deg(SERVO_RANGE_DEGREES)
    /\ eye_angles["L"]["pan"] = Deg(SERVO_RANGE_DEGREES)
    /\ eye_angles["R"]["pan"] = 0 - Deg(SERVO_RANGE_DEGREES)

\* Index i is a 0-based index into options.
IndexInto(i, options) == i \in 0..(Len(options) - 1)

\* C38: after any sequence of key events the active section index is an
\* index into MENU, the option cursor and the selected option of every
\* section with options are indices into its options, and the option cursor
\* of every section without options is None.
C38_MenuWellFormed ==
    /\ IndexInto(current_menu_index, MENU)
    /\ \A i \in 1..Len(MENU) :
           IF MENU[i].options # <<>>
           THEN /\ IndexInto(current_option_indices[i], MENU[i].options)
                /\ IndexInto(selected_option_indices[i], MENU[i].options)
           ELSE current_option_indices[i] = NoIndex

\* Witness of C38: the Zero entry was selected, the Range setting was
\* stepped to and selected, and the section index has wrapped to 9-pt.
C38_Witness ==
    /\ last_call[1] = "key"
    /\ current_menu_index = MENU_9PT_INDEX
    /\ selected_option_indices[2] = 0
    /\ current_option_indices[2] = NoIndex
    /\ current_option_indices[3] = 1
    /\ selected_option_indices[3] = 1
    /\ point_distance_index # IndexOf(POINT_DISTANCE_OPTIONS, 10)

\* The step is a profiled move that is refused by its own checks: the tool
\* is not connected, the limits cannot be read, or the target is outside
\* them.
Refused ==
    /\ HostStep("saccade_with_profile")
    /\ host_call'.returned = "False"
    /\ host_call'.errors # <<HostError("none", "device error", 0, 0)>>

\* C39: a profiled move refused by its checks leaves the stored profile as
\* it was, and so does every plain saccade; save_profile leaves it too and
\* writes it whenever it is not empty.
C39_ProfileKept ==
    [][ /\ Refused =>
               /\ profile_data' = profile_data
               /\ host_call'.calls \in {<<>>, LimitCalls(TRUE, TRUE),
                                        LimitCalls(TRUE, FALSE)}
        /\ HostStep("saccade") => profile_data' = profile_data
        /\ HostStep("save_profile") =>
               /\ profile_data' = profile_data
               /\ (host_pc' = "saving") = (profile_data # <<>>) ]_vars

\* Witness of C39: a profiled move to (30, -30) has been refused for its
\* range while the tool was connected, and the profile still holds the
\* sample of the run before.
C39_Witness ==
    /\ host_call.name = "saccade_with_profile"
    /\ host_call.x = Deg(30)
    /\ host_call.returned = "False"
    /\ connected
    /\ \E i \in 1..Len(host_call.errors) : host_call.errors[i].bound = "minimum"
    /\ Len(threads) = 1
    /\ profile_data # <<>>
    /\ \A i \in 1..Len(profile_data) : profile_data[i].run = 1

\* The step is a SAC command that answers "CMD OK SAC".
SacAccepted ==
    /\ last_call'[1] = "perform_saccade"
    /\ out' # <<>>
    /\ out'[Len(out')].tag = "CMD OK SAC"

\* The angle asked of axis i by the step, its stored angle where it is held.
Asked(i) ==
    IF last_call'[2][i].hold
    THEN eye_angles[SacAxes[i][1]][SacAxes[i][2]]
    ELSE last_call'[2][i].value

\* The angle echoed for axis i, and the angle stored for it, by the step.
Echoed(i) == out'[Len(out')].arg[i]
StoredBy(i) == eye_angles'[SacAxes[i][1]][SacAxes[i][2]]

InServoRange(v) ==
    /\ v >= 0 - Hundredths(Deg(SERVO_RANGE_DEGREES))
    /\ v <= Hundredths(Deg(SERVO_RANGE_DEGREES))

\* C40: the four angles echoed by "CMD OK SAC" are the angles asked for,
\* held axes resolved, before clamping; the stored angles are their clamps;
\* and the echo equals the stored angles exactly when every angle asked for
\* is within -45..+45 degrees.
C40_EchoIsRequested ==
    [][ SacAccepted =>
            /\ \A i \in 1..AxisCount :
                   /\ Hundredths(Echoed(i)) = Asked(i)
                   /\ StoredBy(i) = IF InServoRange(Asked(i)) THEN Asked(i)
                                    ELSE IF Asked(i) < 0
                                    THEN 0 - Hundredths(Deg(SERVO_RANGE_DEGREES))
                                    ELSE Hundredths(Deg(SERVO_RANGE_DEGREES))
            /\ (\A i \in 1..AxisCount : Hundredths(Echoed(i)) = StoredBy(i))
                   = (\A i \in 1..AxisCount : InServoRange(Asked(i))) ]_vars

\* C40, amended: the angles echoed by "CMD OK SAC" are the angles asked
\* for, held axes resolved, before clamping, printed to one decimal; the
\* stored angles are their clamps; when every angle asked for is within
\* -45..+45 degrees the echo is the stored angles printed to one decimal;
\* and when an angle asked for is more than a twentieth of a degree outside
\* that range the echo differs from the stored angles however they are
\* printed.
C40_EchoRounded ==
    [][ SacAccepted =>
            /\ \A i \in 1..AxisCount :
                   /\ Abs(Hundredths(Echoed(i)) - Asked(i)) < 5
                   /\ StoredBy(i) = IF InServoRange(Asked(i)) THEN Asked(i)
                                    ELSE IF Asked(i) < 0
                                    THEN 0 - Hundredths(Deg(SERVO_RANGE_DEGREES))
                                    ELSE Hundredths(Deg(SERVO_RANGE_DEGREES))
            /\ (\A i \in 1..AxisCount : InServoRange(Asked(i))) =>
                   \A i \in 1..AxisCount :
                       Abs(Hundredths(Echoed(i)) - StoredBy(i)) < 5
            /\ (\E i \in 1..AxisCount : Abs(Asked(i)) > 4505) =>
                   \E i \in 1..AxisCount :
                       Abs(Hundredths(Echoed(i)) - StoredBy(i)) >= 5 ]_vars

\* Witness of C40: a SAC line asking 45.04 of the left pan, with the right
\* tilt held at 7, was accepted: the echo reads 45.0 and 7.0, the stored
\* left pan is 45.00.
C40_Witness ==
    /\ last_call[1] = "perform_saccade"
    /\ last_call[2][1] = Num(4504)
    /\ last_call[2][4] = None
    /\ out # <<>>
    /\ out[Len(out)].tag = "CMD OK SAC"
    /\ out[Len(out)].arg[1] = Deg(SERVO_RANGE_DEGREES)
    /\ out[Len(out)].arg[4] = 70
    /\ eye_angles["L"]["pan"] = Hundredths(Deg(SERVO_RANGE_DEGREES))
    /\ eye_angles["R"]["tilt"] = 700

====
